---- MODULE Spec2Model ----
(***************************************************************************)
(* Model of the railrepay eligibility engine: the synchronous evaluate     *)
(* endpoint (src/src/app.ts), the retrieval endpoint, the asynchronous     *)
(* JourneyDelayConfirmed handler (src/src/index.ts) and the                *)
(* EligibilityService (src/src/services/eligibility-service.ts), running   *)
(* concurrently against one PostgreSQL store (READ COMMITTED).             *)
(*                                                                         *)
(* A handler is cut into steps at the statements that read or write the    *)
(* tables requests share; statements on the connection itself or on the    *)
(* immutable reference data commute with every step of another request and *)
(* are taken together with the next such statement.  The store keeps the   *)
(* constraints of the migration (src/unnamed/part_000): journey_id is      *)
(* UNIQUE and scheme is CHECKed in eligibility_evaluations.  Column names  *)
(* are taken as the queries of app.ts and index.ts write them.             *)
(* Wall-clock values (evaluation_timestamp, created_at) are not modelled;  *)
(* uuids are modelled by small integers, gen_random_uuid() by the number   *)
(* of the request that asked for it.                                       *)
(***************************************************************************)
EXTENDS Integers, Sequences, FiniteSets, TLC

\* Requests that may be in flight or finished in one run.
NumProcs == 2

Procs == 1..NumProcs
\* The journey identifiers requests may carry.
Journeys == {1, 2}

\* An optional value (undefined | x) is the empty or the one-element tuple.
Undefined == <<>>
Some(x) == <<x>>
IsDefined(o) == o # <<>>
ValueOf(o) == o[1]

\* ------------------------------------------------------------------------
\* Reference data
\* ------------------------------------------------------------------------

\* toc_rulepacks as app.ts and index.ts query it (toc_code, scheme, is_active).
\* 'ZZ' is a rulepack that out-of-band configuration has switched off.
toc_rulepacks ==
  { [toc_code |-> "GR", scheme |-> "DR15", is_active |-> TRUE],
    [toc_code |-> "SR", scheme |-> "DR30", is_active |-> TRUE],
    [toc_code |-> "ZZ", scheme |-> "DR30", is_active |-> FALSE] }

\* seated_fare_equivalents: the migration creates the table and no row.
seated_fare_equivalents == {}

\* compensation_bands in the min/max range form that app.ts and index.ts
\* query; compensation_percentage is DECIMAL(5,2), kept in hundredths.
compensation_bands ==
  { [scheme |-> "DR15", delay_minutes_min |-> 15,  delay_minutes_max |-> Some(29),  compensation_percentage |-> 2500],
    [scheme |-> "DR15", delay_minutes_min |-> 30,  delay_minutes_max |-> Some(59),  compensation_percentage |-> 5000],
    [scheme |-> "DR15", delay_minutes_min |-> 60,  delay_minutes_max |-> Some(119), compensation_percentage |-> 5000],
    [scheme |-> "DR15", delay_minutes_min |-> 120, delay_minutes_max |-> Undefined, compensation_percentage |-> 10000],
    [scheme |-> "DR30", delay_minutes_min |-> 30,  delay_minutes_max |-> Some(59),  compensation_percentage |-> 5000],
    [scheme |-> "DR30", delay_minutes_min |-> 60,  delay_minutes_max |-> Some(119), compensation_percentage |-> 5000],
    [scheme |-> "DR30", delay_minutes_min |-> 120, delay_minutes_max |-> Undefined, compensation_percentage |-> 10000] }

\* compensation_bands in the threshold form the migration seeds and the
\* EligibilityService's CompensationBand type declares.
seeded_compensation_bands ==
  { [scheme_type |-> "DR15", delay_threshold_minutes |-> 15,  compensation_percentage |-> 25],
    [scheme_type |-> "DR15", delay_threshold_minutes |-> 30,  compensation_percentage |-> 50],
    [scheme_type |-> "DR15", delay_threshold_minutes |-> 60,  compensation_percentage |-> 50],
    [scheme_type |-> "DR15", delay_threshold_minutes |-> 120, compensation_percentage |-> 100],
    [scheme_type |-> "DR30", delay_threshold_minutes |-> 30,  compensation_percentage |-> 50],
    [scheme_type |-> "DR30", delay_threshold_minutes |-> 60,  compensation_percentage |-> 50],
    [scheme_type |-> "DR30", delay_threshold_minutes |-> 120, compensation_percentage |-> 100] }

\* ------------------------------------------------------------------------
\* Conversions and queries
\* ------------------------------------------------------------------------

\* A JavaScript number written to a DECIMAL(5,2) column (hundredths).
ToNumeric(pct) == pct * 100

\* parseFloat of a DECIMAL(5,2) value read from the store; every band
\* percentage of the reference data is a whole number.
parseFloat(numeric) == numeric \div 100

\* Math.floor(a / b) for b > 0.
\* A quotient rounded to the nearest whole number instead.
FloorDiv_nearest(a, b) == (2 * a + b) \div (2 * b)

FloorDiv(a, b) == IF a >= 0 THEN a \div b ELSE -((-a + b - 1) \div b)

\* SELECT ... FROM toc_rulepacks WHERE toc_code = $1
SelectTocRulepack(toc_code) == { r \in toc_rulepacks : r.toc_code = toc_code }

\* The band query with the upper end of a band's range left out of it.
SelectCompensationBand_exclusiveMax(scheme, delay) ==
  LET matching == { b \in compensation_bands :
                      /\ b.scheme = scheme
                      /\ b.delay_minutes_min <= delay
                      /\ (~IsDefined(b.delay_minutes_max) \/ ValueOf(b.delay_minutes_max) > delay) }
  IN { b \in matching : \A c \in matching : c.delay_minutes_min <= b.delay_minutes_min }

\* SELECT ... FROM compensation_bands WHERE scheme = $1 AND delay_minutes_min <= $2
\*   AND (delay_minutes_max IS NULL OR delay_minutes_max >= $2)
\*   ORDER BY delay_minutes_min DESC LIMIT 1
SelectCompensationBand(scheme, delay) ==
  LET matching == { b \in compensation_bands :
                      /\ b.scheme = scheme
                      /\ b.delay_minutes_min <= delay
                      /\ (~IsDefined(b.delay_minutes_max) \/ ValueOf(b.delay_minutes_max) >= delay) }
  IN { b \in matching : \A c \in matching : c.delay_minutes_min <= b.delay_minutes_min }

\* One human-readable reason string: its template and the values it embeds.
Reason(text, delay, pct, scheme, threshold) ==
  [text |-> text, delay |-> delay, pct |-> pct, scheme |-> scheme, threshold |-> threshold]

ReasonUnknownToc == Reason("Unknown TOC", 0, 0, "", 0)
ReasonInactive == Reason("TOC is not active for delay repay claims", 0, 0, "", 0)
ReasonBelowThreshold(delay, scheme) ==
  Reason("Delay of {delay} minutes does not meet {scheme} {threshold}-minute threshold",
         delay, 0, scheme, IF scheme = "DR15" THEN 15 ELSE 30)
ReasonQualifies(delay, pct, scheme) ==
  Reason("Delay of {delay} minutes qualifies for {pct}% refund under {scheme} scheme",
         delay, pct, scheme, 0)

\* `${scheme}_${threshold}MIN_${Math.round(percentage)}PCT`
RuleName(scheme, threshold, pct) == [scheme |-> scheme, min |-> threshold, pct |-> pct]

\* The decision fields of an evaluation, as a response carries them.
Decision(journey_id, eligible, scheme, delay, pct, pence, fare, reasons, rules) ==
  [journey_id |-> journey_id, eligible |-> eligible, scheme |-> scheme,
   delay_minutes |-> delay, compensation_percentage |-> pct,
   compensation_pence |-> pence, ticket_fare_pence |-> fare,
   reasons |-> reasons, applied_rules |-> rules]

NoDecision == Decision(0, FALSE, "", 0, 0, 0, 0, <<>>, <<>>)

\* The row an INSERT INTO eligibility_evaluations writes for a decision.
EvaluationRow(evaluation_id, toc_code, d) ==
  [evaluation_id |-> evaluation_id, journey_id |-> d.journey_id, toc_code |-> toc_code,
   scheme |-> d.scheme, delay_minutes |-> d.delay_minutes,
   ticket_fare_pence |-> d.ticket_fare_pence, eligible |-> d.eligible,
   compensation_percentage |-> ToNumeric(d.compensation_percentage),
   compensation_pence |-> d.compensation_pence,
   reasons |-> d.reasons, applied_rules |-> d.applied_rules]

\* The response body both endpoints build from a stored row.
RowToResponse(row) ==
  Decision(row.journey_id, row.eligible, row.scheme, row.delay_minutes,
           parseFloat(row.compensation_percentage), row.compensation_pence,
           row.ticket_fare_pence, row.reasons, row.applied_rules)

\* ------------------------------------------------------------------------
\* Requests
\* ------------------------------------------------------------------------

TocCodes == {"GR", "ZZ", "XX"}
Delays == {10, 20}
Fares == {1999}
\* (scheduled_arrival, actual_arrival) in epoch milliseconds: 20.5 and 10 minutes late.
ArrivalPairs == { <<0, 1230000>>, <<0, 600000>> }

\* Operator and delay of a request: the active operator below and above its
\* threshold, the inactive and the unknown operator above it.
TocDelays == ({"GR"} \X Delays) \cup ({"ZZ", "XX"} \X {20})
\* Operator and arrival times of a request that carries no delay.
TocArrivals == ({"GR"} \X ArrivalPairs) \cup ({"ZZ", "XX"} \X {<<0, 1230000>>})

Request(kind, journey_id, toc_code, delay_minutes, scheduled_arrival, actual_arrival, fare) ==
  [kind |-> kind, journey_id |-> journey_id, toc_code |-> toc_code,
   delay_minutes |-> delay_minutes, scheduled_arrival |-> scheduled_arrival,
   actual_arrival |-> actual_arrival, ticket_fare_pence |-> fare,
   is_sleeper |-> FALSE, journey_segments |-> <<>>]

\* A segment of a request body or event payload.
RequestSegment(toc_code, fare_portion_pence) ==
  [toc_code |-> toc_code, fare_portion_pence |-> fare_portion_pence]

\* The requests for journey 1 that ask for a sub-component: a sleeper journey,
\* and a journey over an LNER segment and an unknown operator's segment.
SleeperAndSegmentVariants(request) ==
  { [request EXCEPT !.is_sleeper = TRUE],
    [request EXCEPT !.journey_segments =
       << RequestSegment("GR", 999), RequestSegment("XX", 1000) >>] }

NoRequest == Request("none", 0, "", Undefined, Undefined, Undefined, Undefined)

\* Journey 1 is addressed with every kind of input below, journey 2 with the
\* well-formed ones for the active operator.
TocDelaysFor(j) == IF j = 1 THEN TocDelays ELSE {<<"GR", 20>>}
TocArrivalsFor(j) == IF j = 1 THEN TocArrivals ELSE {<<"GR", <<0, 1230000>>>>}

\* Bodies of POST /eligibility/evaluate: with delay_minutes, with the arrival
\* times instead, without toc_code, with neither delay nor arrival times, with
\* a delay_minutes below zero.
EvaluateBodies ==
  { Request("evaluate", 1, td[1], Some(td[2]), Undefined, Undefined, Some(f)) :
      <<td, f>> \in (TocDelays \ {<<"GR", 20>>}) \X Fares }
  \cup { Request("evaluate", j, ta[1], Undefined, Some(ta[2][1]), Some(ta[2][2]), Some(f)) :
      <<j, ta, f>> \in Journeys \X TocArrivalsFor(2) \X Fares }
  \cup { Request("evaluate", 1, "", Some(20), Undefined, Undefined, Some(f)) : f \in Fares }
  \cup { Request("evaluate", 1, "GR", Undefined, Undefined, Undefined, Some(f)) : f \in Fares }
  \cup { Request("evaluate", 1, "GR", Some(-5), Undefined, Undefined, Some(f)) : f \in Fares }
  \cup UNION { SleeperAndSegmentVariants(
                 Request("evaluate", 1, "GR", Some(20), Undefined, Undefined, Some(f))) :
               f \in Fares }

\* JourneyDelayConfirmed events (the payload fields the handler reads): complete,
\* without toc_code, without delay_minutes, with a delay_minutes below zero.
Events ==
  UNION { { Request("event", j, td[1], Some(td[2]), Undefined, Undefined, Some(f)) :
              <<td, f>> \in TocDelaysFor(j) \X Fares } : j \in Journeys }
  \cup { Request("event", 1, "", Some(20), Undefined, Undefined, Some(f)) : f \in Fares }
  \cup { Request("event", 1, "GR", Undefined, Undefined, Undefined, Some(f)) : f \in Fares }
  \cup { Request("event", 1, "GR", Some(-5), Undefined, Undefined, Some(f)) : f \in Fares }
  \cup UNION { SleeperAndSegmentVariants(
                 Request("event", 1, "GR", Some(20), Undefined, Undefined, Some(f))) :
               f \in Fares }

\* EvaluationRequest values passed to EligibilityService.evaluate.
EvaluationRequests ==
  UNION { { Request("service", j, ta[1], Undefined, Some(ta[2][1]), Some(ta[2][2]), Some(f)) :
              <<ta, f>> \in TocArrivalsFor(j) \X Fares } : j \in Journeys }

\* GET /eligibility/:journey_id
GetRequests ==
  { Request("get", j, "", Undefined, Undefined, Undefined, Undefined) : j \in Journeys }

\* ------------------------------------------------------------------------
\* State
\* ------------------------------------------------------------------------

VARIABLES
  pc,           \* where each request stands
  req,          \* the request each one carries
  loc,          \* local variables of the running handler
  resp,         \* what the caller got back
  stats,        \* statements each request has issued, by kind (the lookup counts
                \* are dropped with the locals when a statement rejects)
  evaluations,  \* committed rows of eligibility_evaluations
  outbox,       \* committed rows of outbox
  txEval,       \* rows of eligibility_evaluations written in an open transaction
  txOutbox,     \* rows of outbox written in an open transaction
  calc          \* a call of one of the calculation components and its result

vars == <<pc, req, loc, resp, stats, evaluations, outbox, txEval, txOutbox, calc>>

NoLocals == [delayMinutes |-> Undefined, scheme |-> "", decision |-> NoDecision,
             evaluationId |-> 0]

Response(status, outcome, details, body) ==
  [status |-> status, outcome |-> outcome, details |-> details, body |-> body]

NoResponse == Response(0, "none", <<>>, NoDecision)

\* existing: idempotency lookups made; found: rows they returned; toc, band:
\* rulepack and band lookups; evalWrites, outboxWrites: rows inserted.
NoStats == [existing |-> 0, found |-> 0, toc |-> 0, band |-> 0, evalWrites |-> 0, outboxWrites |-> 0]

\* A call of a calculation component: which one, its arguments, what it gave.
Call(op, input, output) == [op |-> op, input |-> input, output |-> output]
NoCall == Call("none", <<>>, <<>>)

Init ==
  /\ pc = [p \in Procs |-> "idle"]
  /\ req = [p \in Procs |-> NoRequest]
  /\ loc = [p \in Procs |-> NoLocals]
  /\ resp = [p \in Procs |-> NoResponse]
  /\ stats = [p \in Procs |-> NoStats]
  /\ evaluations = {}
  /\ outbox = {}
  /\ txEval = [p \in Procs |-> {}]
  /\ txOutbox = [p \in Procs |-> {}]
  /\ calc = NoCall

\* Requests are numbered in the order they arrive.
MayStart(p) == pc[p] = "idle" /\ (IF p = 1 THEN TRUE ELSE pc[p - 1] # "idle")

\* ------------------------------------------------------------------------
\* The store
\* ------------------------------------------------------------------------

\* SELECT * FROM eligibility_evaluations WHERE journey_id = $1 (committed rows).
SelectEvaluation(journey_id) == { r \in evaluations : r.journey_id = journey_id }

\* A table without the constraint below never rejects a journey_id.
UniqueJourneyViolated_absent(journey_id) == FALSE

\* The UNIQUE constraint on eligibility_evaluations.journey_id.
UniqueJourneyViolated(journey_id) == SelectEvaluation(journey_id) # {}

\* An insert waits while another open transaction holds a row with the same key.
InsertMustWait(p, journey_id) ==
  \E q \in Procs \ {p} : \E r \in txEval[q] : r.journey_id = journey_id

\* The CHECK constraint on eligibility_evaluations.scheme.
SchemeCheckViolated(row) == row.scheme \notin {"DR15", "DR30"}

\* The outbox row of an evaluation.
OutboxRow(id, row, correlation_id) ==
  [id |-> id, aggregate_type |-> "eligibility_evaluation", aggregate_id |-> row.journey_id,
   event_type |-> "EligibilityEvaluated",
   payload |-> [evaluation_id |-> row.evaluation_id, journey_id |-> row.journey_id,
                toc_code |-> row.toc_code, decision |-> RowToResponse(row),
                correlation_id |-> correlation_id]]

\* ------------------------------------------------------------------------
\* JourneyDelayConfirmedHandler.handle (src/src/index.ts)
\* ------------------------------------------------------------------------

\* validateEvent: the message of the error it throws, or none.
validateEvent(event) ==
  IF event.journey_id = 0 THEN <<"Missing journey_id">>
  ELSE IF event.toc_code = "" THEN <<"Missing toc_code">>
  ELSE IF ~IsDefined(event.delay_minutes) THEN <<"Missing delay_minutes">>
  ELSE IF ~IsDefined(event.ticket_fare_pence) THEN <<"Missing ticket_fare_pence">>
  ELSE <<>>

\* The branch taken when the rulepack lookup finds nothing.
handleUnknownToc(event) ==
  Decision(event.journey_id, FALSE, "UNKNOWN", ValueOf(event.delay_minutes), 0, 0,
           ValueOf(event.ticket_fare_pence), <<ReasonUnknownToc>>, <<>>)

\* The branch taken when the rulepack is not active.
handleInactiveToc(event, scheme) ==
  Decision(event.journey_id, FALSE, scheme, ValueOf(event.delay_minutes), 0, 0,
           ValueOf(event.ticket_fare_pence), <<ReasonInactive>>, <<>>)

\* The decision built from the band lookup's rows.
BandDecision(journey_id, scheme, delay, fare, bandRows) ==
  IF bandRows = {}
  THEN Decision(journey_id, FALSE, scheme, delay, 0, 0, fare,
                <<ReasonBelowThreshold(delay, scheme)>>, <<>>)
  ELSE LET band == CHOOSE b \in bandRows : TRUE
           compensationPercentage == parseFloat(band.compensation_percentage)
           compensationPence == FloorDiv(fare * compensationPercentage, 100)
       IN Decision(journey_id, TRUE, scheme, delay, compensationPercentage, compensationPence,
                   fare, <<ReasonQualifies(delay, compensationPercentage, scheme)>>,
                   <<RuleName(scheme, band.delay_minutes_min, compensationPercentage)>>)

\* handle() is called: validateEvent, then new Client().
handle_start(p) ==
  /\ MayStart(p)
  /\ \E event \in Events :
       /\ req' = [req EXCEPT ![p] = event]
       /\ IF validateEvent(event) # <<>>
          THEN /\ pc' = [pc EXCEPT ![p] = "done"]
               /\ resp' = [resp EXCEPT ![p] = Response(0, "thrown", validateEvent(event), NoDecision)]
          ELSE /\ pc' = [pc EXCEPT ![p] = "h_connect"]
               /\ UNCHANGED resp
  /\ UNCHANGED <<loc, stats, evaluations, outbox, txEval, txOutbox>>
  /\ UNCHANGED calc

\* client.connect() rejects: it is outside the try block, the error propagates.
handle_connect_fails(p) ==
  /\ pc[p] = "h_connect"
  /\ pc' = [pc EXCEPT ![p] = "done"]
  /\ resp' = [resp EXCEPT ![p] = Response(0, "thrown", <<"connection failed">>, NoDecision)]
  /\ UNCHANGED <<req, loc, stats, evaluations, outbox, txEval, txOutbox>>
  /\ UNCHANGED calc

\* A handler that goes on whatever the idempotency SELECT returned.
handle_afterExisting_ignored(existingRows) == "h_lookup"

\* if (existingResult.rows.length > 0): commit and return, else go on.
handle_afterExisting(existingRows) ==
  IF existingRows # {} THEN "h_commitDup" ELSE "h_lookup"

\* client.connect(), BEGIN, the idempotency SELECT and the branch on its rows.
handle_selExisting(p) ==
  /\ pc[p] = "h_connect"
  /\ stats' = [stats EXCEPT ![p].existing = @ + 1,
                            ![p].found = @ + Cardinality(SelectEvaluation(req[p].journey_id))]
  /\ pc' = [pc EXCEPT ![p] = handle_afterExisting(SelectEvaluation(req[p].journey_id))]
  /\ UNCHANGED <<req, loc, resp, evaluations, outbox, txEval, txOutbox>>
  /\ UNCHANGED calc

\* Duplicate event: COMMIT of the empty transaction, then return.
handle_commitDup(p) ==
  /\ pc[p] = "h_commitDup"
  /\ pc' = [pc EXCEPT ![p] = "done"]
  /\ loc' = [loc EXCEPT ![p] = NoLocals]
  /\ resp' = [resp EXCEPT ![p] = Response(0, "returned", <<"Duplicate event - already processed">>, NoDecision)]
  /\ UNCHANGED <<req, stats, evaluations, outbox, txEval, txOutbox>>
  /\ UNCHANGED calc

\* The statements on reference data: the rulepack SELECT, the band SELECT when
\* the rulepack is active, and SELECT gen_random_uuid().
handle_lookup(p) ==
  /\ pc[p] = "h_lookup"
  /\ LET tocRows == SelectTocRulepack(req[p].toc_code)
     IN IF tocRows = {}
        THEN /\ loc' = [loc EXCEPT ![p].scheme = "UNKNOWN",
                                   ![p].decision = handleUnknownToc(req[p]),
                                   ![p].evaluationId = p]
             /\ stats' = [stats EXCEPT ![p].toc = @ + 1]
        ELSE LET tocRulepack == CHOOSE r \in tocRows : TRUE
             IN IF ~tocRulepack.is_active
                THEN /\ loc' = [loc EXCEPT ![p].scheme = tocRulepack.scheme,
                                           ![p].decision = handleInactiveToc(req[p], tocRulepack.scheme),
                                           ![p].evaluationId = p]
                     /\ stats' = [stats EXCEPT ![p].toc = @ + 1]
                ELSE /\ loc' = [loc EXCEPT ![p].scheme = tocRulepack.scheme,
                                           ![p].decision =
                                             BandDecision(req[p].journey_id, tocRulepack.scheme,
                                                          ValueOf(req[p].delay_minutes),
                                                          ValueOf(req[p].ticket_fare_pence),
                                                          SelectCompensationBand(tocRulepack.scheme,
                                                                                 ValueOf(req[p].delay_minutes))),
                                           ![p].evaluationId = p]
                     /\ stats' = [stats EXCEPT ![p].toc = @ + 1, ![p].band = @ + 1]
  /\ pc' = [pc EXCEPT ![p] = "h_insEval"]
  /\ UNCHANGED <<req, resp, evaluations, outbox, txEval, txOutbox>>
  /\ UNCHANGED calc

\* A catch block whose transaction is committed instead of rolled back.
handle_catch_committing(p, error) ==
  /\ evaluations' = evaluations \cup txEval[p]
  /\ outbox' = outbox \cup txOutbox[p]
  /\ txEval' = [txEval EXCEPT ![p] = {}]
  /\ txOutbox' = [txOutbox EXCEPT ![p] = {}]
  /\ loc' = [loc EXCEPT ![p] = NoLocals]
  /\ stats' = [stats EXCEPT ![p] = [NoStats EXCEPT !.evalWrites = stats[p].evalWrites,
                                                  !.outboxWrites = stats[p].outboxWrites]]
  /\ pc' = [pc EXCEPT ![p] = "done"]
  /\ resp' = [resp EXCEPT ![p] = Response(0, "thrown", error, NoDecision)]

\* catch: ROLLBACK, log, rethrow; finally: client.end().  Whether or not the
\* ROLLBACK statement itself succeeds, the connection is closed, the open
\* transaction is gone and an error reaches the caller.
handle_catch(p, error) ==
  /\ txEval' = [txEval EXCEPT ![p] = {}]
  /\ txOutbox' = [txOutbox EXCEPT ![p] = {}]
  /\ UNCHANGED <<evaluations, outbox>>
  /\ loc' = [loc EXCEPT ![p] = NoLocals]
  /\ stats' = [stats EXCEPT ![p] = [NoStats EXCEPT !.evalWrites = stats[p].evalWrites,
                                                  !.outboxWrites = stats[p].outboxWrites]]
  /\ pc' = [pc EXCEPT ![p] = "done"]
  /\ resp' = [resp EXCEPT ![p] = Response(0, "thrown", error, NoDecision)]

\* INSERT INTO eligibility_evaluations, inside the transaction.  A row the
\* store rejects makes the statement throw into the catch block.
handle_insEval(p) ==
  /\ pc[p] = "h_insEval"
  /\ LET row == EvaluationRow(loc[p].evaluationId, req[p].toc_code, loc[p].decision)
     IN /\ SchemeCheckViolated(row) \/ ~InsertMustWait(p, row.journey_id)
        /\ IF SchemeCheckViolated(row)
           THEN handle_catch(p, <<"violates check constraint">>)
           ELSE IF UniqueJourneyViolated(row.journey_id)
           THEN handle_catch(p, <<"duplicate key value violates unique constraint">>)
           ELSE /\ txEval' = [txEval EXCEPT ![p] = @ \cup {row}]
                /\ stats' = [stats EXCEPT ![p].evalWrites = @ + 1]
                /\ pc' = [pc EXCEPT ![p] = "h_insOutbox"]
                /\ UNCHANGED <<loc, resp, txOutbox, evaluations, outbox>>
  /\ UNCHANGED req
  /\ UNCHANGED calc

\* INSERT INTO outbox, inside the same transaction.
handle_insOutbox(p) ==
  /\ pc[p] = "h_insOutbox"
  /\ LET row == EvaluationRow(loc[p].evaluationId, req[p].toc_code, loc[p].decision)
     IN txOutbox' = [txOutbox EXCEPT ![p] = @ \cup {OutboxRow(p, row, p)}]
  /\ stats' = [stats EXCEPT ![p].outboxWrites = @ + 1]
  /\ pc' = [pc EXCEPT ![p] = "h_commit"]
  /\ UNCHANGED <<req, loc, resp, evaluations, outbox, txEval>>
  /\ UNCHANGED calc

\* COMMIT: the transaction's rows become visible together; then log and return.
handle_commit(p) ==
  /\ pc[p] = "h_commit"
  /\ evaluations' = evaluations \cup txEval[p]
  /\ outbox' = outbox \cup txOutbox[p]
  /\ txEval' = [txEval EXCEPT ![p] = {}]
  /\ txOutbox' = [txOutbox EXCEPT ![p] = {}]
  /\ pc' = [pc EXCEPT ![p] = "done"]
  /\ loc' = [loc EXCEPT ![p] = NoLocals]
  /\ resp' = [resp EXCEPT ![p] = Response(0, "returned", <<"Eligibility evaluation completed">>, NoDecision)]
  /\ UNCHANGED <<req, stats>>
  /\ UNCHANGED calc

HandleStatements ==
  {"h_connect", "h_commitDup", "h_lookup", "h_insEval", "h_insOutbox", "h_commit"}

\* Any client.query() inside the try block rejects (store unreachable).
handle_query_fails(p) ==
  /\ pc[p] \in HandleStatements
  /\ handle_catch(p, <<"query failed">>)
  /\ UNCHANGED req
  /\ UNCHANGED calc

handle(p) ==
  \/ handle_start(p)
  \/ handle_connect_fails(p)
  \/ handle_selExisting(p)
  \/ handle_commitDup(p)
  \/ handle_lookup(p)
  \/ handle_insEval(p)
  \/ handle_insOutbox(p)
  \/ handle_commit(p)
  \/ handle_query_fails(p)

\* ------------------------------------------------------------------------
\* POST /eligibility/evaluate (src/src/app.ts)
\* ------------------------------------------------------------------------

\* The validation errors collected before the store is touched.
evaluateValidationErrors(body) ==
  (IF body.journey_id = 0 THEN <<"journey_id is required">> ELSE <<>>)
  \o (IF body.toc_code = "" THEN <<"toc_code is required">> ELSE <<>>)
  \o (IF body.toc_code # "" /\ Len(body.toc_code) > 5
      THEN <<"toc_code must be 5 characters or less">> ELSE <<>>)
  \o (IF ~IsDefined(body.delay_minutes)
         /\ (~IsDefined(body.scheduled_arrival) \/ ~IsDefined(body.actual_arrival))
      THEN <<"delay_minutes or (scheduled_arrival and actual_arrival) is required">> ELSE <<>>)
  \o (IF ~IsDefined(body.ticket_fare_pence) \/ body.ticket_fare_pence = Some(0)
      THEN <<"ticket_fare_pence is required">> ELSE <<>>)

\* delayMinutes: the supplied value, or computed from the arrival times.
evaluateDelayMinutes(body) ==
  IF ~IsDefined(body.delay_minutes)
     /\ IsDefined(body.scheduled_arrival) /\ IsDefined(body.actual_arrival)
  THEN LET minutes == FloorDiv(ValueOf(body.actual_arrival) - ValueOf(body.scheduled_arrival), 1000 * 60)
       IN Some(IF minutes > 0 THEN minutes ELSE 0)
  ELSE body.delay_minutes

\* The idempotent response built from the existing row.
evaluateExistingResponse(row) ==
  Decision(row.journey_id, row.eligible, row.scheme, row.delay_minutes,
           parseFloat(row.compensation_percentage), row.compensation_pence,
           row.ticket_fare_pence, row.reasons, row.applied_rules)

\* A 400 response that does not say which operator code was unknown.
evaluateUnknownToc_unnamed(toc_code) ==
  Response(400, "responded", <<"Validation error">>, NoDecision)

\* The 400 response for an operator code without rulepack.
evaluateUnknownToc(toc_code) ==
  Response(400, "responded", <<"Unknown TOC code: ", toc_code>>, NoDecision)

\* The branch taken when the rulepack is not active.
evaluateInactiveToc(body, scheme, delayMinutes) ==
  Decision(body.journey_id, FALSE, scheme, delayMinutes, 0, 0,
           ValueOf(body.ticket_fare_pence), <<ReasonInactive>>, <<>>)

\* The decision built from the band lookup's rows.
evaluateBandDecision(journey_id, scheme, delayMinutes, fare, bandRows) ==
  IF bandRows = {}
  THEN Decision(journey_id, FALSE, scheme, delayMinutes, 0, 0, fare,
                <<ReasonBelowThreshold(delayMinutes, scheme)>>, <<>>)
  ELSE LET band == CHOOSE b \in bandRows : TRUE
           compensationPercentage == parseFloat(band.compensation_percentage)
           compensationPence == FloorDiv(fare * compensationPercentage, 100)
       IN Decision(journey_id, TRUE, scheme, delayMinutes, compensationPercentage,
                   compensationPence, fare,
                   <<ReasonQualifies(delayMinutes, compensationPercentage, scheme)>>,
                   <<RuleName(scheme, band.delay_minutes_min, compensationPercentage)>>)

\* The request arrives: validation, 400 on any error, else new Client().
evaluate_start(p) ==
  /\ MayStart(p)
  /\ \E body \in EvaluateBodies :
       /\ req' = [req EXCEPT ![p] = body]
       /\ IF evaluateValidationErrors(body) # <<>>
          THEN /\ pc' = [pc EXCEPT ![p] = "done"]
               /\ resp' = [resp EXCEPT ![p] =
                             Response(400, "responded", evaluateValidationErrors(body), NoDecision)]
          ELSE /\ pc' = [pc EXCEPT ![p] = "e_connect"]
               /\ UNCHANGED resp
  /\ UNCHANGED <<loc, stats, evaluations, outbox, txEval, txOutbox>>
  /\ UNCHANGED calc

\* client.connect() and the idempotency SELECT: respond from the row, or go
\* on with delayMinutes.
evaluate_selExisting(p) ==
  /\ pc[p] = "e_connect"
  /\ stats' = [stats EXCEPT ![p].existing = @ + 1,
                            ![p].found = @ + Cardinality(SelectEvaluation(req[p].journey_id))]
  /\ LET existingRows == SelectEvaluation(req[p].journey_id)
     IN IF existingRows # {}
        THEN /\ pc' = [pc EXCEPT ![p] = "done"]
             /\ resp' = [resp EXCEPT ![p] =
                           Response(200, "responded", <<>>,
                                    evaluateExistingResponse(CHOOSE r \in existingRows : TRUE))]
             /\ UNCHANGED loc
        ELSE /\ pc' = [pc EXCEPT ![p] = "e_lookup"]
             /\ loc' = [loc EXCEPT ![p].delayMinutes = evaluateDelayMinutes(req[p])]
             /\ UNCHANGED resp
  /\ UNCHANGED <<req, evaluations, outbox, txEval, txOutbox>>
  /\ UNCHANGED calc

\* The statements on reference data: the rulepack SELECT (400 for an unknown
\* code), the band SELECT when the rulepack is active, SELECT gen_random_uuid().
evaluate_lookup(p) ==
  /\ pc[p] = "e_lookup"
  /\ LET tocRows == SelectTocRulepack(req[p].toc_code)
         delayMinutes == ValueOf(loc[p].delayMinutes)
     IN IF tocRows = {}
        THEN /\ pc' = [pc EXCEPT ![p] = "done"]
             /\ resp' = [resp EXCEPT ![p] = evaluateUnknownToc(req[p].toc_code)]
             /\ loc' = [loc EXCEPT ![p] = NoLocals]
             /\ stats' = [stats EXCEPT ![p].toc = @ + 1]
        ELSE LET tocRulepack == CHOOSE r \in tocRows : TRUE
             IN /\ UNCHANGED resp
                /\ pc' = [pc EXCEPT ![p] = "e_insEval"]
                /\ IF ~tocRulepack.is_active
                   THEN /\ loc' = [loc EXCEPT ![p].scheme = tocRulepack.scheme,
                                              ![p].decision =
                                                evaluateInactiveToc(req[p], tocRulepack.scheme, delayMinutes),
                                              ![p].evaluationId = p]
                        /\ stats' = [stats EXCEPT ![p].toc = @ + 1]
                   ELSE /\ loc' = [loc EXCEPT ![p].scheme = tocRulepack.scheme,
                                              ![p].decision =
                                                evaluateBandDecision(req[p].journey_id, tocRulepack.scheme,
                                                                     delayMinutes,
                                                                     ValueOf(req[p].ticket_fare_pence),
                                                                     SelectCompensationBand(tocRulepack.scheme,
                                                                                            delayMinutes)),
                                              ![p].evaluationId = p]
                        /\ stats' = [stats EXCEPT ![p].toc = @ + 1, ![p].band = @ + 1]
  /\ UNCHANGED <<req, evaluations, outbox, txEval, txOutbox>>
  /\ UNCHANGED calc

\* INSERT INTO eligibility_evaluations (no transaction: the statement commits
\* on its own), client.end(), then the 200 response.  A rejected insert is
\* rethrown by the catch block and ends in the error handler.
evaluate_insEval(p) ==
  /\ pc[p] = "e_insEval"
  /\ LET row == EvaluationRow(loc[p].evaluationId, req[p].toc_code, loc[p].decision)
     IN /\ SchemeCheckViolated(row) \/ ~InsertMustWait(p, row.journey_id)
        /\ pc' = [pc EXCEPT ![p] = "done"]
        /\ loc' = [loc EXCEPT ![p] = NoLocals]
        /\ IF SchemeCheckViolated(row)
           THEN /\ resp' = [resp EXCEPT ![p] =
                              Response(500, "thrown", <<"violates check constraint">>, NoDecision)]
                /\ stats' = [stats EXCEPT ![p] = NoStats]
                /\ UNCHANGED evaluations
           ELSE IF UniqueJourneyViolated(row.journey_id)
           THEN /\ resp' = [resp EXCEPT ![p] =
                              Response(500, "thrown",
                                       <<"duplicate key value violates unique constraint">>, NoDecision)]
                /\ stats' = [stats EXCEPT ![p] = NoStats]
                /\ UNCHANGED evaluations
           ELSE /\ evaluations' = evaluations \cup {row}
                /\ stats' = [stats EXCEPT ![p].evalWrites = @ + 1]
                /\ resp' = [resp EXCEPT ![p] = Response(200, "responded", <<>>, loc[p].decision)]
  /\ UNCHANGED <<req, outbox, txEval, txOutbox>>
  /\ UNCHANGED calc

EvaluateStatements == {"e_connect", "e_lookup", "e_insEval"}

\* client.connect() or any client.query() rejects: catch, client.end(), rethrow.
evaluate_query_fails(p) ==
  /\ pc[p] \in EvaluateStatements
  /\ pc' = [pc EXCEPT ![p] = "done"]
  /\ loc' = [loc EXCEPT ![p] = NoLocals]
  /\ stats' = [stats EXCEPT ![p] = NoStats]
  /\ resp' = [resp EXCEPT ![p] = Response(500, "thrown", <<"query failed">>, NoDecision)]
  /\ UNCHANGED <<req, evaluations, outbox, txEval, txOutbox>>
  /\ UNCHANGED calc

evaluate(p) ==
  \/ evaluate_start(p)
  \/ evaluate_selExisting(p)
  \/ evaluate_lookup(p)
  \/ evaluate_insEval(p)
  \/ evaluate_query_fails(p)

\* ------------------------------------------------------------------------
\* GET /eligibility/:journey_id (src/src/app.ts)
\* ------------------------------------------------------------------------

\* uuidValidate(journey_id)
uuidValidate(journey_id) == journey_id # 0

\* A response that passes the stored NUMERIC on without parseFloat.
getResponse_raw(row) ==
  Decision(row.journey_id, row.eligible, row.scheme, row.delay_minutes,
           row.compensation_percentage, row.compensation_pence,
           row.ticket_fare_pence, row.reasons, row.applied_rules)

\* The 200 response built from the stored row.
getResponse(row) ==
  Decision(row.journey_id, row.eligible, row.scheme, row.delay_minutes,
           parseFloat(row.compensation_percentage), row.compensation_pence,
           row.ticket_fare_pence, row.reasons, row.applied_rules)

get_start(p) ==
  /\ MayStart(p)
  /\ \E r \in GetRequests :
       /\ req' = [req EXCEPT ![p] = r]
       /\ IF ~uuidValidate(r.journey_id)
          THEN /\ pc' = [pc EXCEPT ![p] = "done"]
               /\ resp' = [resp EXCEPT ![p] =
                             Response(400, "responded", <<"Invalid journey_id format">>, NoDecision)]
          ELSE /\ pc' = [pc EXCEPT ![p] = "g_connect"]
               /\ UNCHANGED resp
  /\ UNCHANGED <<loc, stats, evaluations, outbox, txEval, txOutbox>>
  /\ UNCHANGED calc

\* client.connect(), the SELECT by journey_id, client.end(), then 404 or 200.
get_query(p) ==
  /\ pc[p] = "g_connect"
  /\ LET rows == SelectEvaluation(req[p].journey_id)
     IN resp' = [resp EXCEPT ![p] =
                   IF rows = {}
                   THEN Response(404, "responded", <<"Evaluation not found">>, NoDecision)
                   ELSE Response(200, "responded", <<>>, getResponse(CHOOSE r \in rows : TRUE))]
  /\ pc' = [pc EXCEPT ![p] = "done"]
  /\ UNCHANGED <<req, loc, stats, evaluations, outbox, txEval, txOutbox>>
  /\ UNCHANGED calc

\* client.connect() or the query rejects: catch, client.end(), rethrow.
get_query_fails(p) ==
  /\ pc[p] = "g_connect"
  /\ pc' = [pc EXCEPT ![p] = "done"]
  /\ resp' = [resp EXCEPT ![p] = Response(500, "thrown", <<"query failed">>, NoDecision)]
  /\ UNCHANGED <<req, loc, stats, evaluations, outbox, txEval, txOutbox>>
  /\ UNCHANGED calc

get(p) ==
  \/ get_start(p)
  \/ get_query(p)
  \/ get_query_fails(p)

\* ------------------------------------------------------------------------
\* EligibilityService.evaluate (src/src/services/eligibility-service.ts)
\* ------------------------------------------------------------------------

\* EvaluationRepository.findByJourneyId, backed by eligibility_evaluations.
findByJourneyId(journey_id) == { RowToResponse(r) : r \in SelectEvaluation(journey_id) }

\* TocRepository.findByTocCode, backed by toc_rulepacks.
findByTocCode(toc_code) ==
  { [toc_code |-> r.toc_code, scheme |-> r.scheme, active |-> r.is_active] :
      r \in SelectTocRulepack(toc_code) }

\* CompensationBandRepository.findBySchemeAndDelay: the band of the scheme
\* with the largest threshold that is at most the delay.
findBySchemeAndDelay(scheme, delayMinutes) ==
  LET matching == { b \in seeded_compensation_bands :
                      b.scheme_type = scheme /\ b.delay_threshold_minutes <= delayMinutes }
  IN { b \in matching : \A c \in matching : c.delay_threshold_minutes <= b.delay_threshold_minutes }

\* The difference in whole minutes, not held at zero.
calculateDelayMinutes_signed(scheduledArrival, actualArrival) ==
  FloorDiv(actualArrival - scheduledArrival, 1000 * 60)

\* calculateDelayMinutes
calculateDelayMinutes(scheduledArrival, actualArrival) ==
  LET diffMs == actualArrival - scheduledArrival
      diffMinutes == FloorDiv(diffMs, 1000 * 60)
  IN IF diffMinutes > 0 THEN diffMinutes ELSE 0

\* buildEvaluationResult
buildEvaluationResult(request, tocRulepack, delayMinutes, compensationBand) ==
  LET scheme == tocRulepack.scheme
      fare == ValueOf(request.ticket_fare_pence)
  IN IF compensationBand = {}
     THEN Decision(request.journey_id, FALSE, scheme, delayMinutes, 0, 0, fare,
                   <<ReasonBelowThreshold(delayMinutes, scheme)>>, <<>>)
     ELSE LET band == CHOOSE b \in compensationBand : TRUE
              compensationPercentage == band.compensation_percentage
              compensationPence == FloorDiv(fare * compensationPercentage, 100)
          IN Decision(request.journey_id, TRUE, scheme, delayMinutes, compensationPercentage,
                      compensationPence, fare,
                      <<ReasonQualifies(delayMinutes, compensationPercentage, scheme)>>,
                      <<RuleName(scheme, band.delay_threshold_minutes, compensationPercentage)>>)

\* The statements evaluate() has issued when it ends, by the path it took.
ServiceStats(found, toc, band) ==
  [existing |-> 1, found |-> found, toc |-> toc, band |-> band, evalWrites |-> 0, outboxWrites |-> 0]

\* What evaluate() does with a request: its outcome and the lookups it made.
\* It writes nothing, so the whole call is one step at its idempotency lookup.
EligibilityService_outcome(request) ==
  LET existingEvaluation == findByJourneyId(request.journey_id)
      tocRulepack == findByTocCode(request.toc_code)
  IN IF existingEvaluation # {}
     THEN [resp |-> Response(0, "returned", <<>>, CHOOSE e \in existingEvaluation : TRUE),
           stats |-> ServiceStats(1, 0, 0)]
     ELSE IF tocRulepack = {}
     THEN [resp |-> Response(0, "thrown", <<"Unknown TOC code: ", request.toc_code>>, NoDecision),
           stats |-> ServiceStats(0, 1, 0)]
     ELSE IF ~(CHOOSE r \in tocRulepack : TRUE).active
     THEN [resp |-> Response(0, "thrown", <<"TOC ", request.toc_code, " is not currently active">>,
                             NoDecision),
           stats |-> ServiceStats(0, 1, 0)]
     ELSE LET rulepack == CHOOSE r \in tocRulepack : TRUE
              delayMinutes == calculateDelayMinutes(ValueOf(request.scheduled_arrival),
                                                    ValueOf(request.actual_arrival))
              compensationBand == findBySchemeAndDelay(rulepack.scheme, delayMinutes)
          IN [resp |-> Response(0, "returned", <<>>,
                                buildEvaluationResult(request, rulepack, delayMinutes, compensationBand)),
              stats |-> ServiceStats(0, 1, 1)]

EligibilityService_evaluate(p) ==
  /\ MayStart(p)
  /\ \E request \in EvaluationRequests :
       /\ req' = [req EXCEPT ![p] = request]
       /\ resp' = [resp EXCEPT ![p] = EligibilityService_outcome(request).resp]
       /\ stats' = [stats EXCEPT ![p] = EligibilityService_outcome(request).stats]
  /\ pc' = [pc EXCEPT ![p] = "done"]
  /\ UNCHANGED <<loc, evaluations, outbox, txEval, txOutbox>>
  /\ UNCHANGED calc

\* ------------------------------------------------------------------------
\* MultiTocApportioner: band constants and getCompensationPercentage
\* ------------------------------------------------------------------------

\* maxMinutes: Infinity
Infinity == Undefined

Band(minMinutes, maxMinutes, percentage) ==
  [minMinutes |-> minMinutes, maxMinutes |-> maxMinutes, percentage |-> percentage]

DR15_BANDS ==
  << Band(15, Some(29), 25), Band(30, Some(59), 50),
     Band(60, Some(119), 50), Band(120, Infinity, 100) >>

DR30_BANDS ==
  << Band(30, Some(59), 50), Band(60, Some(119), 50), Band(120, Infinity, 100) >>

\* A band that stops one minute short of its upper end.
InBand_exclusive(band, delayMinutes) ==
  /\ delayMinutes >= band.minMinutes
  /\ IF band.maxMinutes = Infinity THEN TRUE ELSE delayMinutes < ValueOf(band.maxMinutes)

\* delayMinutes >= band.minMinutes && delayMinutes <= band.maxMinutes
InBand(band, delayMinutes) ==
  /\ delayMinutes >= band.minMinutes
  /\ IF band.maxMinutes = Infinity THEN TRUE ELSE delayMinutes <= ValueOf(band.maxMinutes)

\* The first band of the scheme's list that holds the delay, else 0.
getCompensationPercentage(scheme, delayMinutes) ==
  LET bands == IF scheme = "DR15" THEN DR15_BANDS ELSE DR30_BANDS
      hits == { i \in 1..Len(bands) : InBand(bands[i], delayMinutes) }
  IN IF hits = {} THEN 0
     ELSE bands[CHOOSE i \in hits : \A k \in hits : i <= k].percentage

\* ------------------------------------------------------------------------
\* MultiTocApportioner: apportion
\* ------------------------------------------------------------------------

JourneySegment(toc_code, fare_portion_pence, segment_order) ==
  [toc_code |-> toc_code, fare_portion_pence |-> fare_portion_pence,
   segment_order |-> segment_order]

ApportionmentRequest(journey_id, delay_minutes, total_fare_pence, journey_segments) ==
  [journey_id |-> journey_id, delay_minutes |-> delay_minutes,
   total_fare_pence |-> total_fare_pence, journey_segments |-> journey_segments]

\* A SegmentEligibility; an absent scheme or notes is the empty string.
SegmentEligibility(segment, eligible, percentage, pence, scheme, notes) ==
  [toc_code |-> segment.toc_code, segment_order |-> segment.segment_order,
   fare_portion_pence |-> segment.fare_portion_pence, eligible |-> eligible,
   compensation_percentage |-> percentage, compensation_pence |-> pence,
   scheme |-> scheme, notes |-> notes]

\* reduce((sum, seg) => sum + seg.fare_portion_pence, 0)
RECURSIVE fareSum(_)
fareSum(segments) ==
  IF segments = <<>> THEN 0
  ELSE fareSum(SubSeq(segments, 1, Len(segments) - 1))
       + segments[Len(segments)].fare_portion_pence

\* reduce((sum, seg) => sum + seg.compensation_pence, 0)
RECURSIVE totalCompensationPence(_)
totalCompensationPence(segmentEligibilities) ==
  IF segmentEligibilities = <<>> THEN 0
  ELSE totalCompensationPence(SubSeq(segmentEligibilities, 1, Len(segmentEligibilities) - 1))
       + segmentEligibilities[Len(segmentEligibilities)].compensation_pence

\* A validation that only asks for a segment.
validateRequest_lenient(request) ==
  IF Len(request.journey_segments) = 0
  THEN <<"At least one journey segment is required">>
  ELSE <<>>

\* validateRequest: the error it throws, or none.
validateRequest(request) ==
  IF Len(request.journey_segments) = 0
  THEN <<"At least one journey segment is required">>
  ELSE IF fareSum(request.journey_segments) # request.total_fare_pence
  THEN <<"Fare portions do not sum to total fare">>
  ELSE <<>>

\* A segment evaluation that pays whatever the operator's state.
evaluateSegment_anyOperator(segment, delayMinutes, tocRulepack) ==
  LET scheme == IF tocRulepack = {} THEN "DR15" ELSE (CHOOSE r \in tocRulepack : TRUE).scheme
      compensationPercentage == getCompensationPercentage(scheme, delayMinutes)
  IN SegmentEligibility(segment, compensationPercentage > 0, compensationPercentage,
                        FloorDiv(segment.fare_portion_pence * compensationPercentage, 100),
                        scheme, "")

\* evaluateSegment, given what findByTocCode(segment.toc_code) resolved to
\* (tocRulepack: no row or one).
evaluateSegment(segment, delayMinutes, tocRulepack) ==
  IF tocRulepack = {}
  THEN SegmentEligibility(segment, FALSE, 0, 0, "", "Unknown TOC code")
  ELSE LET rulepack == CHOOSE r \in tocRulepack : TRUE
       IN IF ~rulepack.is_active
          THEN SegmentEligibility(segment, FALSE, 0, 0, rulepack.scheme,
                                  "TOC is inactive for delay repay claims")
          ELSE LET compensationPercentage ==
                     getCompensationPercentage(rulepack.scheme, delayMinutes)
                   compensationPence ==
                     FloorDiv(segment.fare_portion_pence * compensationPercentage, 100)
               IN SegmentEligibility(segment, compensationPercentage > 0,
                                     compensationPercentage, compensationPence,
                                     rulepack.scheme, "")

\* Insertion of one element behind the elements it does not precede.
RECURSIVE insertBySegmentOrder(_, _)
insertBySegmentOrder(sorted, e) ==
  IF sorted = <<>> THEN <<e>>
  ELSE IF sorted[Len(sorted)].segment_order <= e.segment_order
  THEN Append(sorted, e)
  ELSE Append(insertBySegmentOrder(SubSeq(sorted, 1, Len(sorted) - 1), e), sorted[Len(sorted)])

\* The list left in the order the segments were evaluated in.
sortBySegmentOrder_unsorted(segmentEligibilities) == segmentEligibilities

\* segmentEligibilities.sort((a, b) => a.segment_order - b.segment_order):
\* a stable sort.
RECURSIVE sortBySegmentOrder(_)
sortBySegmentOrder(segmentEligibilities) ==
  IF segmentEligibilities = <<>> THEN <<>>
  ELSE insertBySegmentOrder(
         sortBySegmentOrder(SubSeq(segmentEligibilities, 1, Len(segmentEligibilities) - 1)),
         segmentEligibilities[Len(segmentEligibilities)])

\* apportion, with the repository the apportioner was constructed with given
\* as the rulepack rows it holds.  lookups counts the findByTocCode calls
\* made, evaluated the segments evaluated, by the time the call ends.
apportion(request, tocRulepackRepository) ==
  IF validateRequest(request) # <<>>
  THEN [outcome |-> "thrown", error |-> validateRequest(request), lookups |-> 0,
        evaluated |-> 0, journey_id |-> request.journey_id,
        segment_eligibilities |-> <<>>, total_compensation_pence |-> 0]
  ELSE LET segmentEligibilities ==
             sortBySegmentOrder(
               [i \in 1..Len(request.journey_segments) |->
                  evaluateSegment(request.journey_segments[i], request.delay_minutes,
                                  { r \in tocRulepackRepository :
                                      r.toc_code = request.journey_segments[i].toc_code })])
       IN [outcome |-> "returned", error |-> <<>>,
           lookups |-> Len(request.journey_segments),
           evaluated |-> Len(request.journey_segments),
           journey_id |-> request.journey_id,
           segment_eligibilities |-> segmentEligibilities,
           total_compensation_pence |-> totalCompensationPence(segmentEligibilities)]

\* ------------------------------------------------------------------------
\* Double-precision arithmetic of the number operators / and *
\* ------------------------------------------------------------------------
\* A positive double is m x 2^e with m a 53-bit significand, written as its
\* bits, most significant first; results are rounded to nearest, ties to even.

Zeros(n) == [i \in 1..n |-> 0]
ZeroDouble == [m |-> <<>>, e |-> 0]

\* Whole numbers beyond 31 bits are sequences of limbs, 15 bits each, most
\* significant first.
LimbBits == 15
LimbBase == 32768

RECURSIVE PowerOfTwo(_)
PowerOfTwo(k) == IF k = 0 THEN 1 ELSE 2 * PowerOfTwo(k - 1)

RECURSIVE LimbOfBits(_)
LimbOfBits(bits) ==
  IF bits = <<>> THEN 0
  ELSE 2 * LimbOfBits(SubSeq(bits, 1, Len(bits) - 1)) + bits[Len(bits)]

\* The integer written by at most 30 bits.
BitsToInteger(bits) ==
  IF Len(bits) <= LimbBits THEN LimbOfBits(bits)
  ELSE LimbOfBits(SubSeq(bits, 1, Len(bits) - LimbBits)) * LimbBase
       + LimbOfBits(SubSeq(bits, Len(bits) - LimbBits + 1, Len(bits)))

IntegerToLimbs(n) == << n \div LimbBase, n % LimbBase >>

LimbsToBits(limbs) ==
  [i \in 1..(LimbBits * Len(limbs)) |->
     (limbs[((i - 1) \div LimbBits) + 1]
        \div PowerOfTwo(LimbBits - 1 - ((i - 1) % LimbBits))) % 2]

BitsToLimbs(bits) ==
  LET padded == Zeros((LimbBits - (Len(bits) % LimbBits)) % LimbBits) \o bits
  IN [k \in 1..(Len(padded) \div LimbBits) |->
        LimbOfBits(SubSeq(padded, LimbBits * (k - 1) + 1, LimbBits * k))]

StripZeros(bits) ==
  IF \A i \in DOMAIN bits : bits[i] = 0 THEN <<>>
  ELSE LET first == CHOOSE i \in DOMAIN bits :
                      bits[i] = 1 /\ \A j \in 1..(i - 1) : bits[j] = 0
       IN SubSeq(bits, first, Len(bits))

Increment(bits) ==
  IF \A i \in DOMAIN bits : bits[i] = 1 THEN <<1>> \o Zeros(Len(bits))
  ELSE LET last == CHOOSE i \in DOMAIN bits :
                     bits[i] = 0 /\ \A j \in (i + 1)..Len(bits) : bits[j] = 1
       IN [i \in DOMAIN bits |-> IF i < last THEN bits[i] ELSE IF i = last THEN 1 ELSE 0]

\* limbs x n + carry for an integer n below the limb base.
RECURSIVE MultiplyLimbs(_, _, _)
MultiplyLimbs(limbs, n, carry) ==
  IF limbs = <<>> THEN IntegerToLimbs(carry)
  ELSE LET t == limbs[Len(limbs)] * n + carry
       IN Append(MultiplyLimbs(SubSeq(limbs, 1, Len(limbs) - 1), n, t \div LimbBase),
                 t % LimbBase)

\* limbs divided by an integer d below the limb base:
\* <<quotient limbs, remainder>>.
RECURSIVE LongDivide(_, _)
LongDivide(limbs, d) ==
  IF limbs = <<>> THEN << <<>>, 0 >>
  ELSE LET before == LongDivide(SubSeq(limbs, 1, Len(limbs) - 1), d)
           r == before[2] * LimbBase + limbs[Len(limbs)]
       IN << Append(before[1], r \div d), r % d >>

\* The double nearest to (bits + a fraction that is nonzero iff sticky) x 2^e.
RoundToDouble(bits, sticky, e) ==
  IF bits = <<>> THEN ZeroDouble
  ELSE IF Len(bits) <= 53
  THEN [m |-> bits \o Zeros(53 - Len(bits)), e |-> e - (53 - Len(bits))]
  ELSE LET kept == SubSeq(bits, 1, 53)
           beyond == sticky \/ \E i \in 55..Len(bits) : bits[i] = 1
           up == bits[54] = 1 /\ (beyond \/ kept[53] = 1)
           m == IF up THEN Increment(kept) ELSE kept
       IN IF Len(m) = 54
          THEN [m |-> SubSeq(m, 1, 53), e |-> e + Len(bits) - 53 + 1]
          ELSE [m |-> m, e |-> e + Len(bits) - 53]

\* The quotient taken the other way round, b / a.
divideIntegers_swapped(a, b) ==
  LET q == LongDivide(<<b, 0, 0, 0, 0, 0>>, a)
  IN RoundToDouble(StripZeros(LimbsToBits(q[1])), q[2] # 0, -(5 * LimbBits))

\* a / b for positive integers a and b below the limb base.
divideIntegers(a, b) ==
  LET q == LongDivide(<<a, 0, 0, 0, 0, 0>>, b)
  IN RoundToDouble(StripZeros(LimbsToBits(q[1])), q[2] # 0, -(5 * LimbBits))

\* x * n for a double x and an integer n below the limb base.
multiply(x, n) ==
  IF x = ZeroDouble \/ n = 0 THEN ZeroDouble
  ELSE RoundToDouble(StripZeros(LimbsToBits(MultiplyLimbs(BitsToLimbs(x.m), n, 0))),
                     FALSE, x.e)

\* x / n for a double x and an integer n below the limb base.
divide(x, n) ==
  IF x = ZeroDouble THEN ZeroDouble
  ELSE LET q == LongDivide(BitsToLimbs(x.m) \o <<0, 0>>, n)
       IN RoundToDouble(StripZeros(LimbsToBits(q[1])), q[2] # 0, x.e - 2 * LimbBits)

\* Math.floor of a double.
Math_floor(x) ==
  IF x = ZeroDouble THEN 0
  ELSE IF x.e >= 0 THEN BitsToInteger(x.m \o Zeros(x.e))
  ELSE IF 53 + x.e <= 0 THEN 0
  ELSE BitsToInteger(SubSeq(x.m, 1, 53 + x.e))

\* ------------------------------------------------------------------------
\* SleeperFareCapper
\* ------------------------------------------------------------------------

\* A calendar date string YYYY-MM-DD is <<year, month, day>>.
IsoDate(year, month, day) == <<year, month, day>>

\* new Date(dateString), as far as dates are compared: a number that grows
\* with the calendar date.
NewDate(date) == (date[1] * 12 + (date[2] - 1)) * 31 + date[3]

SleeperCapRequest(fare_pence, calculated_pence, journey_date, percentage) ==
  [route_code |-> "EUS-INV", sleeper_class |-> "standard_berth",
   sleeper_fare_pence |-> fare_pence,
   calculated_compensation_pence |-> calculated_pence,
   journey_date |-> journey_date,
   compensation_percentage |-> percentage]

SeatedFareEquivalent(seated_equivalent_pence, effective_from, effective_to) ==
  [route_code |-> "EUS-INV", sleeper_class |-> "standard_berth",
   seated_equivalent_pence |-> seated_equivalent_pence,
   effective_from |-> effective_from, effective_to |-> effective_to]

\* A SleeperCapResult; an absent seated_equivalent_pence is Undefined, absent
\* notes the empty string.
SleeperCapResult(capped, cap_applied, original, seated_equivalent_pence, notes) ==
  [capped_compensation_pence |-> capped, cap_applied |-> cap_applied,
   original_compensation_pence |-> original,
   seated_equivalent_pence |-> seated_equivalent_pence, notes |-> notes]

isExpired(fareEquivalent, journeyDate) ==
  IF fareEquivalent.effective_to = Undefined THEN FALSE
  ELSE NewDate(journeyDate) > NewDate(ValueOf(fareEquivalent.effective_to))

\* applyCap, given what findByRouteAndClass(route_code, sleeper_class)
\* resolved to (found: no row or one).
applyCap(request, found) ==
  IF found = Undefined
  THEN SleeperCapResult(request.calculated_compensation_pence, FALSE,
                        request.calculated_compensation_pence, Undefined,
                        "No seated fare equivalent found for route/class")
  ELSE IF isExpired(ValueOf(found), request.journey_date)
  THEN SleeperCapResult(request.calculated_compensation_pence, FALSE,
                        request.calculated_compensation_pence, Undefined,
                        "Expired fare equivalent - using original calculation")
  ELSE LET seatedEquivalentPence == ValueOf(found).seated_equivalent_pence
       IN IF /\ request.compensation_percentage # Undefined
             /\ ValueOf(request.compensation_percentage) > 0
          THEN SleeperCapResult(
                 FloorDiv(seatedEquivalentPence * ValueOf(request.compensation_percentage), 100),
                 TRUE, request.calculated_compensation_pence,
                 Some(seatedEquivalentPence), "")
          ELSE IF request.calculated_compensation_pence <= seatedEquivalentPence
          THEN SleeperCapResult(request.calculated_compensation_pence, FALSE,
                                request.calculated_compensation_pence,
                                Some(seatedEquivalentPence), "")
          ELSE LET effectivePercentage ==
                     multiply(divideIntegers(request.calculated_compensation_pence,
                                             request.sleeper_fare_pence), 100)
                   proportionalCap ==
                     Math_floor(divide(multiply(effectivePercentage, seatedEquivalentPence), 100))
               IN SleeperCapResult(proportionalCap, TRUE,
                                   request.calculated_compensation_pence,
                                   Some(seatedEquivalentPence), "")

\* ------------------------------------------------------------------------
\* RestrictionValidator (src/src/services/multi-toc-apportioner.ts)
\* ------------------------------------------------------------------------
\* A string the validator takes apart is the sequence of its characters.

DigitChars == <<"0", "1", "2", "3", "4", "5", "6", "7", "8", "9">>
IsDigit(c) == \E i \in DOMAIN DigitChars : DigitChars[i] = c
DigitValue(c) == (CHOOSE i \in DOMAIN DigitChars : DigitChars[i] = c) - 1

\* Number(text) for a text of digits.
RECURSIVE Number(_)
Number(text) ==
  IF text = <<>> THEN 0
  ELSE 10 * Number(SubSeq(text, 1, Len(text) - 1)) + DigitValue(text[Len(text)])

\* The decimal digits of n, padded with zeros to the given width.
RECURSIVE Padded(_, _)
Padded(n, width) ==
  IF width = 0 THEN <<>>
  ELSE Append(Padded(n \div 10, width - 1), DigitChars[(n % 10) + 1])

\* The strings 'YYYY-MM-DD' and 'HH:MM' for the given numbers.
DateString(year, month, day) ==
  Padded(year, 4) \o <<"-">> \o Padded(month, 2) \o <<"-">> \o Padded(day, 2)
TimeString(hours, minutes) == Padded(hours, 2) \o <<":">> \o Padded(minutes, 2)

UK_BANK_HOLIDAYS_2026 ==
  { DateString(2026, 1, 1), DateString(2026, 4, 3), DateString(2026, 4, 6),
    DateString(2026, 5, 4), DateString(2026, 5, 25), DateString(2026, 8, 31),
    DateString(2026, 12, 25), DateString(2026, 12, 28) }

UK_BANK_HOLIDAYS_2028 ==
  { DateString(2028, 1, 3), DateString(2028, 4, 14), DateString(2028, 4, 17),
    DateString(2028, 5, 1), DateString(2028, 5, 29), DateString(2028, 8, 28),
    DateString(2028, 12, 25), DateString(2028, 12, 26), DateString(2028, 2, 29) }

UK_BANK_HOLIDAYS == UK_BANK_HOLIDAYS_2026 \cup UK_BANK_HOLIDAYS_2028

\* /^\d{4}-\d{2}-\d{2}$/.test(dateStr)
dateRegex(dateStr) ==
  /\ Len(dateStr) = 10
  /\ \A i \in {1, 2, 3, 4, 6, 7, 9, 10} : IsDigit(dateStr[i])
  /\ dateStr[5] = "-" /\ dateStr[8] = "-"

\* /^\d{2}:\d{2}$/.test(timeStr)
timeRegex(timeStr) ==
  /\ Len(timeStr) = 5
  /\ \A i \in {1, 2, 4, 5} : IsDigit(timeStr[i])
  /\ timeStr[3] = ":"

\* dateStr.split('-').map(Number) and timeStr.split(':').map(Number) of a
\* string the pattern matched.
SplitDate(dateStr) ==
  << Number(SubSeq(dateStr, 1, 4)), Number(SubSeq(dateStr, 6, 7)), Number(SubSeq(dateStr, 9, 10)) >>
SplitTime(timeStr) == << Number(SubSeq(timeStr, 1, 2)), Number(SubSeq(timeStr, 4, 5)) >>

IsLeapYear(year) == (year % 4 = 0 /\ year % 100 # 0) \/ year % 400 = 0

DaysOfMonth(year, month) ==
  IF month = 2 THEN (IF IsLeapYear(year) THEN 29 ELSE 28)
  ELSE IF month \in {4, 6, 9, 11} THEN 30 ELSE 31

\* A month length that takes every fourth year for a leap year.
daysInMonth_everyFourthYear(year, month) ==
  IF month = 2 THEN (IF year % 4 = 0 THEN 29 ELSE 28)
  ELSE IF month \in {4, 6, 9, 11} THEN 30 ELSE 31

\* new Date(year, month, 0).getDate(): the last day of the month; the Date
\* constructor takes a year from 0 to 99 as 1900 + year.
daysInMonth(year, month) ==
  DaysOfMonth(IF year <= 99 THEN 1900 + year ELSE year, month)

\* Days from 1970-01-01 to a calendar date.
DayNumber(year, month, day) ==
  LET y == IF month <= 2 THEN year - 1 ELSE year
      era == y \div 400
      yoe == y - era * 400
      doy == ((153 * (IF month > 2 THEN month - 3 ELSE month + 9) + 2) \div 5) + day - 1
      doe == yoe * 365 + (yoe \div 4) - (yoe \div 100) + doy
  IN era * 146097 + doe - 719468

\* new Date(dateStr).getDay() for a date-only string: the string is read as
\* midnight UTC and the day of the week (Sunday = 0) taken in the local time
\* zone of the process, utcOffsetMinutes from UTC.
getDay(dateStr, utcOffsetMinutes) ==
  LET ymd == SplitDate(dateStr)
      localDay == DayNumber(ymd[1], ymd[2], ymd[3]) + (IF utcOffsetMinutes < 0 THEN -1 ELSE 0)
  IN (localDay + 4) % 7

\* validateDateFormat: the error it throws, or none.  A string that passes
\* the three tests below names a calendar date, which new Date(dateStr)
\* parses, so the closing isNaN test does not throw.
validateDateFormat(dateStr) ==
  IF ~dateRegex(dateStr) THEN <<"Invalid journey_date format">>
  ELSE LET ymd == SplitDate(dateStr)
       IN IF ymd[2] < 1 \/ ymd[2] > 12 THEN <<"Invalid journey_date format">>
          ELSE IF ymd[3] < 1 \/ ymd[3] > daysInMonth(ymd[1], ymd[2])
          THEN <<"Invalid journey_date format">>
          ELSE <<>>

\* validateTimeFormat: the error it throws, or none.
validateTimeFormat(timeStr) ==
  IF ~timeRegex(timeStr) THEN <<"Invalid departure_time format">>
  ELSE LET hm == SplitTime(timeStr)
       IN IF hm[1] < 0 \/ hm[1] > 23 \/ hm[2] < 0 \/ hm[2] > 59
          THEN <<"Invalid departure_time format">>
          ELSE <<>>

isWeekendOrBankHoliday(dateStr, dayOfWeek) ==
  (dayOfWeek = 0 \/ dayOfWeek = 6) \/ dateStr \in UK_BANK_HOLIDAYS

\* A peak test that counts the minute a window ends in.
isPeakTime_closed(timeInMinutes, isWeekend) ==
  IF isWeekend THEN FALSE
  ELSE \/ (timeInMinutes >= 6 * 60 + 30 /\ timeInMinutes <= 9 * 60 + 30)
       \/ (timeInMinutes >= 16 * 60 /\ timeInMinutes <= 19 * 60)

isPeakTime(timeInMinutes, isWeekend) ==
  IF isWeekend THEN FALSE
  ELSE LET morningPeakStart == 6 * 60 + 30
           morningPeakEnd == 9 * 60 + 30
           eveningPeakStart == 16 * 60
           eveningPeakEnd == 19 * 60
       IN \/ (timeInMinutes >= morningPeakStart /\ timeInMinutes < morningPeakEnd)
          \/ (timeInMinutes >= eveningPeakStart /\ timeInMinutes < eveningPeakEnd)

\* checkRestriction: the reason the code blocks for, or none.
checkRestriction(code, isWeekend, isPeak) ==
  CASE code = "WE" ->
         IF ~isWeekend THEN <<"Ticket is valid for weekend travel only">> ELSE <<>>
    [] code = "OP" ->
         IF isPeak THEN <<"Off-peak ticket cannot be used during peak hours">> ELSE <<>>
    [] code = "SP" ->
         IF isPeak THEN <<"Super off-peak ticket cannot be used during peak hours">> ELSE <<>>
    [] code = "AT" -> <<>>
    [] code = "RE" ->
         IF isPeak THEN <<"Restricted ticket cannot be used during peak hours">> ELSE <<>>
    [] code = "XA" ->
         IF isPeak THEN <<"Advance ticket cannot be used during peak hours">> ELSE <<>>
    [] code = "1F" -> <<>>
    [] OTHER -> <<>>

knownCodes == {"WE", "OP", "SP", "AT", "RE", "1F", "XA"}

\* buildValidationNotes: the unknown codes it names, in list order, or the
\* number of codes validated.
buildValidationNotes(codes) ==
  LET unknownCodes == SelectSeq(codes, LAMBDA c : c \notin knownCodes)
  IN IF Len(unknownCodes) > 0
     THEN [text |-> "Unknown restriction codes (allowed): {codes}", codes |-> unknownCodes, count |-> 0]
     ELSE [text |-> "All {count} restriction(s) validated successfully", codes |-> <<>>,
           count |-> Len(codes)]

NoNotes == [text |-> "", codes |-> <<>>, count |-> 0]

RestrictionValidationRequest(restriction_codes, journey_date, departure_time) ==
  [restriction_codes |-> restriction_codes, journey_date |-> journey_date,
   departure_time |-> departure_time]

\* What a call of validate ends in: a RestrictionValidationResult or a thrown
\* error, with the number of checkRestriction calls made.
ValidateOutcome(outcome, error, valid, checked, blocking, reason, notes, evaluated) ==
  [outcome |-> outcome, error |-> error, valid |-> valid, restrictions_checked |-> checked,
   blocking_restriction |-> blocking, reason |-> reason, notes |-> notes,
   evaluated |-> evaluated]

\* The position the loop over the codes returns at: a loop that goes through
\* every code and keeps the last one that blocks.
blockingIndex_last(codes, isWeekend, isPeak) ==
  IF \A i \in DOMAIN codes : checkRestriction(codes[i], isWeekend, isPeak) = <<>> THEN 0
  ELSE CHOOSE i \in DOMAIN codes :
         /\ checkRestriction(codes[i], isWeekend, isPeak) # <<>>
         /\ \A j \in (i + 1)..Len(codes) : checkRestriction(codes[j], isWeekend, isPeak) = <<>>

\* The position the loop over the codes returns at (the first code whose
\* check is not valid), or 0 if it runs to the end.
blockingIndex(codes, isWeekend, isPeak) ==
  IF \A i \in DOMAIN codes : checkRestriction(codes[i], isWeekend, isPeak) = <<>> THEN 0
  ELSE CHOOSE i \in DOMAIN codes :
         /\ checkRestriction(codes[i], isWeekend, isPeak) # <<>>
         /\ \A j \in 1..(i - 1) : checkRestriction(codes[j], isWeekend, isPeak) = <<>>

\* validate, in a process whose local time is utcOffsetMinutes from UTC.
validate(request, utcOffsetMinutes) ==
  IF validateDateFormat(request.journey_date) # <<>>
  THEN ValidateOutcome("thrown", validateDateFormat(request.journey_date), FALSE, <<>>, "",
                       <<>>, NoNotes, 0)
  ELSE IF validateTimeFormat(request.departure_time) # <<>>
  THEN ValidateOutcome("thrown", validateTimeFormat(request.departure_time), FALSE, <<>>, "",
                       <<>>, NoNotes, 0)
  ELSE IF Len(request.restriction_codes) = 0
  THEN ValidateOutcome("returned", <<>>, TRUE, <<>>, "", <<>>,
                       [NoNotes EXCEPT !.text = "No restrictions to validate"], 0)
  ELSE LET hm == SplitTime(request.departure_time)
           timeInMinutes == hm[1] * 60 + hm[2]
           isWeekend == isWeekendOrBankHoliday(request.journey_date,
                                               getDay(request.journey_date, utcOffsetMinutes))
           isPeak == isPeakTime(timeInMinutes, isWeekend)
           at == blockingIndex(request.restriction_codes, isWeekend, isPeak)
       IN IF at # 0
          THEN ValidateOutcome("returned", <<>>, FALSE, request.restriction_codes,
                               request.restriction_codes[at],
                               checkRestriction(request.restriction_codes[at], isWeekend, isPeak),
                               NoNotes, at)
          ELSE ValidateOutcome("returned", <<>>, TRUE, request.restriction_codes, "", <<>>,
                               buildValidationNotes(request.restriction_codes),
                               Len(request.restriction_codes))

\* ------------------------------------------------------------------------
\* Calls of the calculation components
\* ------------------------------------------------------------------------

\* Delays, in minutes, for which a band is resolved.
MaxDelay == 125
Schemes == {"DR15", "DR30"}

\* Band resolution for one scheme and delay: by the apportioner's constants,
\* and by the band query and decision of the endpoint and of the handler.
Calc_resolveBand ==
  /\ calc = NoCall
  /\ \E scheme \in Schemes, delay \in 0..MaxDelay :
       calc' = Call("resolveBand", [scheme |-> scheme, delay |-> delay],
                    [apportioner |-> getCompensationPercentage(scheme, delay),
                     endpoint |-> evaluateBandDecision(1, scheme, delay, 1999,
                                                       SelectCompensationBand(scheme, delay)),
                     handler |-> BandDecision(1, scheme, delay, 1999,
                                              SelectCompensationBand(scheme, delay))])
  /\ UNCHANGED <<pc, req, loc, resp, stats, evaluations, outbox, txEval, txOutbox>>

\* Fares, in pence, for which a compensation amount is computed.
CalcFares == {1, 99, 100, 1999, 2000, 4501}

\* The compensation amount for a fare and a band the delay has reached, as
\* the service, the endpoint and the handler each compute it.
Calc_compensation ==
  /\ calc = NoCall
  /\ \E fare \in CalcFares, band \in seeded_compensation_bands :
       LET scheme == band.scheme_type
           delay == band.delay_threshold_minutes
           bandRows == { b \in compensation_bands :
                           b.scheme = scheme /\ b.delay_minutes_min = delay }
       IN calc' = Call("compensation", [fare |-> fare, band |-> band],
                       [service |-> buildEvaluationResult(
                                      Request("service", 1, "GR", Undefined, Some(0), Some(0), Some(fare)),
                                      [scheme |-> scheme], delay, {band}),
                        endpoint |-> evaluateBandDecision(1, scheme, delay, fare, bandRows),
                        handler |-> BandDecision(1, scheme, delay, fare, bandRows)])
  /\ UNCHANGED <<pc, req, loc, resp, stats, evaluations, outbox, txEval, txOutbox>>

\* Arrival times are taken every 15 seconds from 0 to this many steps.
MaxArrivalSteps == 12
ArrivalTimes == { 15000 * k : k \in 0..MaxArrivalSteps }

\* The delay for a scheduled and an actual arrival time (epoch milliseconds),
\* as the service computes it and as the endpoint does for a body without
\* delay_minutes.
Calc_delay ==
  /\ calc = NoCall
  /\ \E scheduled \in ArrivalTimes, actual \in ArrivalTimes :
       calc' = Call("delay", [scheduled |-> scheduled, actual |-> actual],
                    [service |-> calculateDelayMinutes(scheduled, actual),
                     endpoint |-> evaluateDelayMinutes(
                                    Request("evaluate", 1, "GR", Undefined,
                                            Some(scheduled), Some(actual), Some(1999)))])
  /\ UNCHANGED <<pc, req, loc, resp, stats, evaluations, outbox, txEval, txOutbox>>

\* Segments a request may carry; at most MaxSegments of them, in any order.
\* fare_portion_pence is a number: one segment carries a portion below zero.
MaxSegments == 3
SegmentChoices ==
  { JourneySegment(tf[1], tf[2], order) :
      tf \in { <<"GR", 999>>, <<"GR", 2000>>, <<"SR", 2000>>, <<"ZZ", 999>>, <<"XX", 999>> },
      order \in {1, 2, 3} }
  \cup { JourneySegment("GR", -500, 1) }
SegmentLists == UNION { [1..n -> SegmentChoices] : n \in 0..MaxSegments }

\* apportion for a list of segments, a delay, and a declared total fare that
\* is the sum of the fare portions or one penny more.
Calc_apportion ==
  /\ calc = NoCall
  /\ \E segments \in SegmentLists, delay \in {20, 45}, excess \in {0, 1} :
       LET request == ApportionmentRequest(1, delay, fareSum(segments) + excess, segments)
       IN calc' = Call("apportion", request, apportion(request, toc_rulepacks))
  /\ UNCHANGED <<pc, req, loc, resp, stats, evaluations, outbox, txEval, txOutbox>>

\* Dates, fares and seated-fare rows the capper is called with: a calculated
\* compensation is a percentage, of at most 100, of the sleeper fare.
CapDates == { IsoDate(2025, 12, 31), IsoDate(2026, 1, 15), IsoDate(2026, 6, 1) }
SleeperFares == { <<5000, 5000>>, <<5000, 1250>>, <<12000, 4000>>, <<3000, 1500>> }
CapPercentages == { Undefined, Some(0), Some(25), Some(100) }
SeatedFareRows ==
  { row \in { SeatedFareEquivalent(seated, from, to) :
                seated \in {2000, 3000, 8500}, from \in CapDates,
                to \in {Undefined} \cup { Some(d) : d \in CapDates } } :
      row.effective_to # Undefined =>
        NewDate(row.effective_from) <= NewDate(ValueOf(row.effective_to)) }

\* applyCap for a request and the row, if any, the repository holds for the
\* request's route and class.
Calc_applyCap ==
  /\ calc = NoCall
  /\ \E fare \in SleeperFares, date \in CapDates, percentage \in CapPercentages,
        found \in {Undefined} \cup { Some(row) : row \in SeatedFareRows } :
       LET request == SleeperCapRequest(fare[1], fare[2], date, percentage)
       IN calc' = Call("applyCap", [request |-> request, found |-> found],
                       applyCap(request, found))
  /\ UNCHANGED <<pc, req, loc, resp, stats, evaluations, outbox, txEval, txOutbox>>

\* Journey dates: a Thursday, a Saturday, a Monday, Christmas Day 2026 (a
\* Friday), 29 February 2028 (a Tuesday), 29 February of years that have
\* none, 31 April, month 13, month 0, day 0, and texts not of the form
\* YYYY-MM-DD.
JourneyDates ==
  { DateString(2026, 1, 15), DateString(2026, 1, 17), DateString(2026, 1, 19),
    DateString(2026, 12, 25), DateString(2028, 2, 29),
    DateString(2027, 2, 29), DateString(2100, 2, 29), DateString(2026, 4, 31),
    DateString(2026, 13, 45), DateString(2026, 0, 10), DateString(2026, 1, 0),
    <<"2", "0", "2", "6", "/", "0", "1", "/", "1", "5">>,
    <<"2", "6", "-", "0", "1", "-", "1", "5">>,
    <<"1", "5", "-", "0", "1", "-", "2", "0", "2", "6">> }

\* Departure times: around the ends of both peak windows, midday, hour 24
\* and 25, minute 60, and texts not of the form HH:MM.
DepartureTimes ==
  { TimeString(6, 29), TimeString(6, 30), TimeString(9, 29), TimeString(9, 30),
    TimeString(12, 0), TimeString(15, 59), TimeString(16, 0), TimeString(18, 59),
    TimeString(19, 0), TimeString(24, 0), TimeString(25, 0), TimeString(10, 60),
    <<"9", ":", "3", "0">>, <<"0", "9", "3", "0">> }

\* Restriction codes: the known ones and one that is not.
RestrictionCodes == {"WE", "OP", "SP", "AT", "RE", "XA", "1F", "XX"}
MaxCodes == 2
CodeLists == UNION { [1..n -> RestrictionCodes] : n \in 0..MaxCodes }

\* Local time zones of the process: UTC, and five hours behind it.
UtcOffsets == {0, -300}

\* validate for a list of codes, a journey date and a departure time.
Calc_validate ==
  /\ calc = NoCall
  /\ \E codes \in CodeLists, date \in JourneyDates, time \in DepartureTimes,
        utcOffsetMinutes \in UtcOffsets :
       LET request == RestrictionValidationRequest(codes, date, time)
       IN calc' = Call("validate",
                       [request |-> request, utcOffsetMinutes |-> utcOffsetMinutes],
                       validate(request, utcOffsetMinutes))
  /\ UNCHANGED <<pc, req, loc, resp, stats, evaluations, outbox, txEval, txOutbox>>

\* ------------------------------------------------------------------------
\* Specification
\* ------------------------------------------------------------------------

Next ==
  \E p \in Procs :
    \/ handle(p)
    \/ evaluate(p)
    \/ get(p)
    \/ EligibilityService_evaluate(p)

Spec == Init /\ [][Next]_vars

\* The calculation components, each called once on any of its inputs.
NextCalc ==
  \/ Calc_resolveBand
  \/ Calc_compensation
  \/ Calc_delay
  \/ Calc_apportion
  \/ Calc_applyCap
  \/ Calc_validate

SpecCalc == Init /\ [][NextCalc]_vars

\* ------------------------------------------------------------------------
\* Properties
\* ------------------------------------------------------------------------

\* Rows a request has committed: its evaluation_id and outbox id are its own.
EvalBy(p) == { r \in evaluations : r.evaluation_id = p }
OutboxBy(p) == { o \in outbox : o.id = p }
OutboxFor(journey_id) == { o \in outbox : o.aggregate_id = journey_id }

DuplicateKeyError == <<"duplicate key value violates unique constraint">>
StoreFailures == { <<"query failed">>, <<"connection failed">> }

\* C1: for every journey, a committed evaluation exists exactly when a
\* committed outbox event for that journey exists, whichever entry point
\* (POST /eligibility/evaluate or the event handler) wrote it.
C1_EvaluationIffOutbox ==
  \A j \in Journeys : (SelectEvaluation(j) # {}) <=> (OutboxFor(j) # {})

\* C2: of the requests racing on one journey, the one whose insert loses
\* does not end in the unique-constraint error (it is answered with the
\* evaluation the other one committed).
C2_InsertLoserReturnsOther ==
  \A p \in Procs : resp[p].details # DuplicateKeyError

\* C3: whatever events are handled, in whatever order or interleaving, a
\* journey has at most one committed evaluation row and at most one committed
\* outbox event.
C3_AtMostOnePerJourney ==
  \A j \in Journeys :
    /\ Cardinality(SelectEvaluation(j)) <= 1
    /\ Cardinality(OutboxFor(j)) <= 1

\* Two events for one journey raced: one committed, the other lost its insert.
C3_Witness ==
  \E p, q \in Procs :
    /\ p # q
    /\ req[p].kind = "event" /\ req[q].kind = "event"
    /\ req[p].journey_id = req[q].journey_id
    /\ resp[p].details = <<"Eligibility evaluation completed">>
    /\ resp[q].details = DuplicateKeyError
    /\ Cardinality(SelectEvaluation(req[p].journey_id)) = 1
    /\ Cardinality(OutboxFor(req[p].journey_id)) = 1

\* C4: a request whose idempotency lookup found the journey's evaluation
\* makes no rulepack lookup, no band lookup, no evaluation write and no
\* outbox write, and what it returns is the stored record.
C4_ExistingReturnedUntouched ==
  \A p \in Procs :
    stats[p].found > 0 =>
      /\ stats[p].toc = 0 /\ stats[p].band = 0
      /\ stats[p].evalWrites = 0 /\ stats[p].outboxWrites = 0
      /\ txEval[p] = {} /\ txOutbox[p] = {}
      /\ EvalBy(p) = {} /\ OutboxBy(p) = {}
      /\ (pc[p] = "done" /\ req[p].kind \in {"evaluate", "service"}) =>
            /\ resp[p].outcome \in {"responded", "returned"}
            /\ resp[p].body \in { RowToResponse(r) : r \in SelectEvaluation(req[p].journey_id) }

\* The orchestrator was called for a journey that already had its evaluation.
C4_Witness ==
  \E p \in Procs :
    /\ req[p].kind = "service"
    /\ pc[p] = "done"
    /\ stats[p].found = 1
    /\ resp[p].outcome = "returned"
    /\ resp[p].body.eligible

FirstEvaluated(p) ==
  /\ req[p].kind = "evaluate"
  /\ pc[p] = "done"
  /\ resp[p].status = 200
  /\ stats[p].evalWrites = 1

\* What a fetch by journey id returns, and what every later 200 response for
\* the journey carried, is the body of the response that wrote the row.
C6_FetchAgrees ==
  \A p \in Procs :
    FirstEvaluated(p) =>
      /\ { getResponse(r) : r \in SelectEvaluation(req[p].journey_id) } = {resp[p].body}
      /\ \A q \in Procs :
            (/\ req[q].kind \in {"get", "evaluate"}
             /\ req[q].journey_id = req[p].journey_id
             /\ pc[q] = "done"
             /\ resp[q].status = 200) => resp[q].body = resp[p].body

\* C6: once a journey's evaluation is committed, no later request or event
\* (whatever operator, delay or fare it carries) changes or removes the stored
\* row, and fetching it by journey id returns the decision fields of the
\* original response.
C6_CommittedEvaluationImmutable ==
  [][ /\ \A r \in evaluations : r \in evaluations'
      /\ \A j \in Journeys :
            SelectEvaluation(j) # {} => SelectEvaluation(j)' = SelectEvaluation(j)
      /\ C6_FetchAgrees' ]_vars

\* A later request for the journey carried another operator and was answered
\* with the first, compensated, evaluation.
C6_Witness ==
  \E p, q \in Procs :
    /\ FirstEvaluated(p)
    /\ resp[p].body.eligible
    /\ req[q].kind = "evaluate"
    /\ req[q].journey_id = req[p].journey_id
    /\ req[q].toc_code # req[p].toc_code
    /\ stats[q].found = 1
    /\ resp[q].status = 200
    /\ resp[q].body = resp[p].body

\* C7: after a call of EligibilityService.evaluate returned a result, a later
\* call for the same journey is answered from the idempotency lookup alone:
\* it finds the evaluation, looks up neither rulepack nor band, and returns
\* the same result.
C7_SecondCallFromIdempotencyCheck ==
  \A p, q \in Procs :
    (/\ p < q
     /\ req[p].kind = "service" /\ req[q].kind = "service"
     /\ req[p].journey_id = req[q].journey_id
     /\ resp[p].outcome = "returned"
     /\ pc[q] = "done") =>
      /\ stats[q].found = 1
      /\ stats[q].toc = 0 /\ stats[q].band = 0
      /\ resp[q] = resp[p]

\* C8: on the synchronous path (the endpoint and the orchestrator), a request
\* whose rulepack lookup finds no operator ends in an error that names the
\* operator code, with no decision returned and nothing written.
C8_UnknownOperatorRejected ==
  \A p \in Procs :
    (/\ req[p].kind \in {"evaluate", "service"}
     /\ pc[p] = "done"
     /\ stats[p].toc = 1
     /\ SelectTocRulepack(req[p].toc_code) = {}) =>
      /\ resp[p].details = <<"Unknown TOC code: ", req[p].toc_code>>
      /\ resp[p].outcome \in {"responded", "thrown"}
      /\ resp[p].status # 200
      /\ resp[p].body = NoDecision
      /\ stats[p].evalWrites = 0 /\ stats[p].outboxWrites = 0
      /\ EvalBy(p) = {} /\ OutboxBy(p) = {}

\* The endpoint answered 400 for the operator code XX.
C8_Witness ==
  \E p \in Procs :
    /\ req[p].kind = "evaluate"
    /\ req[p].toc_code = "XX"
    /\ pc[p] = "done"
    /\ stats[p].toc = 1
    /\ resp[p].status = 400
    /\ SelectEvaluation(req[p].journey_id) = {}

\* C9: a well-formed event with an unknown operator, handled without store
\* failure and not a duplicate, does not fail: the handler returns, having
\* committed an evaluation (not eligible, 0 percent, 0 pence, the
\* unknown-operator reason) together with its outbox event.
C9_UnknownOperatorEventCommitted ==
  \A p \in Procs :
    (/\ req[p].kind = "event"
     /\ pc[p] = "done"
     /\ validateEvent(req[p]) = <<>>
     /\ SelectTocRulepack(req[p].toc_code) = {}
     /\ resp[p].details \notin StoreFailures
     /\ resp[p].details # DuplicateKeyError
     /\ resp[p].details # <<"Duplicate event - already processed">>) =>
      /\ resp[p].outcome = "returned"
      /\ \E r \in EvalBy(p) :
            /\ ~r.eligible
            /\ r.compensation_percentage = 0
            /\ r.compensation_pence = 0
            /\ r.reasons = <<ReasonUnknownToc>>
      /\ OutboxBy(p) # {}

\* C10: on the synchronous path, a request whose rulepack lookup finds a
\* known but inactive operator fails: no 200, no decision returned, and an
\* error that is not the unknown-operator error.
C10_InactiveOperatorFails ==
  \A p \in Procs :
    (/\ req[p].kind \in {"evaluate", "service"}
     /\ pc[p] = "done"
     /\ stats[p].toc = 1
     /\ \E r \in SelectTocRulepack(req[p].toc_code) : ~r.is_active) =>
      /\ resp[p].status # 200
      /\ resp[p].outcome # "returned"
      /\ resp[p].body = NoDecision
      /\ resp[p].details # <<>>
      /\ resp[p].details # <<"Unknown TOC code: ", req[p].toc_code>>

\* The scheme's bands, by threshold, whose threshold is at most the delay.
BandsAtMost(scheme, delay) ==
  { b \in seeded_compensation_bands :
      b.scheme_type = scheme /\ b.delay_threshold_minutes <= delay }

\* The percentage of the band with the largest threshold at most the delay;
\* 0 when the delay is below every threshold of the scheme.
ResolvedPercentage(scheme, delay) ==
  IF BandsAtMost(scheme, delay) = {} THEN 0
  ELSE (CHOOSE b \in BandsAtMost(scheme, delay) :
          \A c \in BandsAtMost(scheme, delay) :
            c.delay_threshold_minutes <= b.delay_threshold_minutes).compensation_percentage

\* C12: for each scheme and every delay from 0 up, band resolution (the
\* apportioner's, the endpoint's and the handler's) yields the percentage of
\* the band with the largest threshold at most the delay: not eligible and
\* zero below the lowest threshold (15 for DR15, 30 for DR30), the top band's
\* 100 percent from the highest threshold (120) on.
C12_BandResolution ==
  calc.op = "resolveBand" =>
    LET scheme == calc.input.scheme
        delay == calc.input.delay
        expected == ResolvedPercentage(scheme, delay)
        lowest == IF scheme = "DR15" THEN 15 ELSE 30
    IN /\ calc.output.apportioner = expected
       /\ \A d \in {calc.output.endpoint, calc.output.handler} :
            /\ d.compensation_percentage = expected
            /\ d.eligible <=> (delay >= lowest)
            /\ ~d.eligible => d.compensation_pence = 0
       /\ delay < lowest => expected = 0
       /\ delay >= 120 => expected = 100

\* A delay beyond the highest threshold was resolved to the top band.
C12_Witness ==
  /\ calc.op = "resolveBand"
  /\ calc.input.scheme = "DR30"
  /\ calc.input.delay > 120
  /\ calc.output.apportioner = 100
  /\ calc.output.endpoint.eligible

\* C13: every eligible decision's compensation amount is the floor of
\* fare x percentage / 100 (the largest whole number of pence not above it),
\* on the service, endpoint and handler paths alike; fare 1999 at 25 percent
\* gives 499.
C13_CompensationIsFloor ==
  calc.op = "compensation" =>
    \A d \in {calc.output.service, calc.output.endpoint, calc.output.handler} :
      /\ d.eligible
      /\ d.ticket_fare_pence = calc.input.fare
      /\ d.compensation_percentage = calc.input.band.compensation_percentage
      /\ d.compensation_pence * 100 <= d.ticket_fare_pence * d.compensation_percentage
      /\ d.ticket_fare_pence * d.compensation_percentage < (d.compensation_pence + 1) * 100
      /\ (d.ticket_fare_pence = 1999 /\ d.compensation_percentage = 25) => d.compensation_pence = 499

\* Fare 1999 at 25 percent was computed, on all three paths, as 499.
C13_Witness ==
  /\ calc.op = "compensation"
  /\ calc.input.fare = 1999
  /\ calc.input.band.compensation_percentage = 25
  /\ calc.output.service.compensation_pence = 499
  /\ calc.output.endpoint.compensation_pence = 499
  /\ calc.output.handler.compensation_pence = 499

\* C14: for every scheduled and actual arrival time the computed delay is
\* max(0, floor of the difference in minutes): never negative, zero whenever
\* the actual arrival is at or before the scheduled one, and otherwise the
\* number of whole minutes in the difference.
C14_DelayIsClampedFloor ==
  calc.op = "delay" =>
    LET diffMs == calc.input.actual - calc.input.scheduled
    IN \A d \in {calc.output.service, ValueOf(calc.output.endpoint)} :
         /\ d >= 0
         /\ diffMs <= 0 => d = 0
         /\ diffMs > 0 => (d * 60000 <= diffMs /\ diffMs < (d + 1) * 60000)

\* An arrival 45 seconds early was given the delay zero.
C14_Witness ==
  /\ calc.op = "delay"
  /\ calc.input.actual - calc.input.scheduled = -45000
  /\ calc.output.service = 0
  /\ calc.output.endpoint = Some(0)

\* The sum of the fare portions of the segments at the given positions.
RECURSIVE PortionsAt(_, _)
PortionsAt(segments, positions) ==
  IF positions = {} THEN 0
  ELSE LET i == CHOOSE i \in positions : TRUE
       IN segments[i].fare_portion_pence + PortionsAt(segments, positions \ {i})

\* C15: apportionment of an empty segment list, and of a list whose fare
\* portions do not add up exactly to the declared total fare, fails with the
\* respective error and has made no rulepack lookup and evaluated no segment.
C15_InvalidRequestFailsFirst ==
  calc.op = "apportion" =>
    LET segments == calc.input.journey_segments
        portions == PortionsAt(segments, DOMAIN segments)
    IN /\ segments = <<>> =>
            /\ calc.output.outcome = "thrown"
            /\ calc.output.error = <<"At least one journey segment is required">>
            /\ calc.output.lookups = 0
            /\ calc.output.evaluated = 0
       /\ (segments # <<>> /\ portions # calc.input.total_fare_pence) =>
            /\ calc.output.outcome = "thrown"
            /\ calc.output.error = <<"Fare portions do not sum to total fare">>
            /\ calc.output.lookups = 0
            /\ calc.output.evaluated = 0

\* Two segments whose portions are one penny short of the declared total
\* were refused without a lookup.
C15_Witness ==
  /\ calc.op = "apportion"
  /\ Len(calc.input.journey_segments) = 2
  /\ calc.input.total_fare_pence =
       PortionsAt(calc.input.journey_segments, DOMAIN calc.input.journey_segments) + 1
  /\ calc.output.outcome = "thrown"
  /\ calc.output.lookups = 0

\* The rulepack rows of an operator in the reference data.
RulepackOf(toc_code) == { r \in toc_rulepacks : r.toc_code = toc_code }

\* What a segment's evaluation must be, from its own operator and fare
\* portion and the journey delay alone.
SegmentDecidedAlone(e, delay) ==
  IF RulepackOf(e.toc_code) = {} \/ \E r \in RulepackOf(e.toc_code) : ~r.is_active
  THEN /\ ~e.eligible
       /\ e.compensation_pence = 0
       /\ e.notes # ""
  ELSE \E r \in RulepackOf(e.toc_code) :
         LET pct == ResolvedPercentage(r.scheme, delay)
         IN /\ e.compensation_percentage = pct
            /\ e.compensation_pence * 100 <= e.fare_portion_pence * pct
            /\ e.fare_portion_pence * pct < (e.compensation_pence + 1) * 100
            /\ e.eligible <=> pct > 0

\* The segment a segment evaluation is about.
SegmentOf(e) == JourneySegment(e.toc_code, e.fare_portion_pence, e.segment_order)

\* The evaluations are those of the supplied segments, each as often as it
\* was supplied.
SameSegments(segments, evaluations_) ==
  /\ Len(segments) = Len(evaluations_)
  /\ \A g \in SegmentChoices :
       Cardinality({ i \in DOMAIN segments : segments[i] = g })
         = Cardinality({ j \in DOMAIN evaluations_ : SegmentOf(evaluations_[j]) = g })

\* The sum of the compensation of the evaluations at the given positions.
RECURSIVE CompensationAt(_, _)
CompensationAt(evaluations_, positions) ==
  IF positions = {} THEN 0
  ELSE LET j == CHOOSE j \in positions : TRUE
       IN evaluations_[j].compensation_pence + CompensationAt(evaluations_, positions \ {j})

\* C16: in a returned apportionment every supplied segment has its own
\* evaluation: not eligible with zero compensation and a note if its operator
\* is unknown or inactive, and otherwise floor(fare portion x band percentage
\* / 100) with the band of its operator's scheme for the journey delay; the
\* total is the sum of the segments' compensation.
C16_SegmentsDecidedIndependently ==
  (calc.op = "apportion" /\ calc.output.outcome = "returned") =>
    LET out == calc.output.segment_eligibilities
    IN /\ SameSegments(calc.input.journey_segments, out)
       /\ \A j \in DOMAIN out : SegmentDecidedAlone(out[j], calc.input.delay_minutes)
       /\ calc.output.total_compensation_pence = CompensationAt(out, DOMAIN out)

\* A 45-minute delay over an LNER segment of 999, an inactive operator's
\* segment and an unknown operator's segment paid 499 for the first alone.
C16_Witness ==
  /\ calc.op = "apportion"
  /\ calc.output.outcome = "returned"
  /\ calc.input.delay_minutes = 45
  /\ { SegmentOf(calc.output.segment_eligibilities[j]).toc_code :
         j \in DOMAIN calc.output.segment_eligibilities } = {"GR", "ZZ", "XX"}
  /\ \E j \in DOMAIN calc.output.segment_eligibilities :
       LET e == calc.output.segment_eligibilities[j]
       IN e.toc_code = "GR" /\ e.fare_portion_pence = 999 /\ e.compensation_pence = 499
  /\ calc.output.total_compensation_pence = 499

\* C17: the segments of a returned apportionment are in ascending order of
\* segment_order, whatever order they were supplied in.
C17_SegmentsInAscendingOrder ==
  (calc.op = "apportion" /\ calc.output.outcome = "returned") =>
    LET out == calc.output.segment_eligibilities
    IN /\ Len(out) = Len(calc.input.journey_segments)
       /\ \A i, j \in DOMAIN out :
            i < j => out[i].segment_order <= out[j].segment_order

\* Segments supplied in the order 3, 1, 2 came back in the order 1, 2, 3.
C17_Witness ==
  /\ calc.op = "apportion"
  /\ calc.output.outcome = "returned"
  /\ Len(calc.input.journey_segments) = 3
  /\ [i \in 1..3 |-> calc.input.journey_segments[i].segment_order] = <<3, 1, 2>>
  /\ [i \in 1..3 |-> calc.output.segment_eligibilities[i].segment_order] = <<1, 2, 3>>
  /\ \A i \in 1..3 :
       calc.output.segment_eligibilities[i].toc_code
         = calc.input.journey_segments[(i % 3) + 1].toc_code

\* The seated-fare row found for the request, if its effective range
\* (effective_from to effective_to, no effective_to meaning current)
\* contains the journey date.
ApplicableRow(input) ==
  IF input.found = Undefined THEN Undefined
  ELSE LET row == ValueOf(input.found)
           journey == NewDate(input.request.journey_date)
       IN IF /\ NewDate(row.effective_from) <= journey
             /\ (row.effective_to = Undefined \/ journey <= NewDate(ValueOf(row.effective_to)))
          THEN input.found
          ELSE Undefined

\* C18: when a seated-fare equivalent applies and a percentage is supplied,
\* the capped compensation is floor(seated equivalent x percentage / 100) and
\* the cap is flagged as applied, for every supplied percentage and whatever
\* the calculated compensation is.
C18_PercentageCapAlways ==
  (/\ calc.op = "applyCap"
   /\ ApplicableRow(calc.input) # Undefined
   /\ calc.input.request.compensation_percentage # Undefined) =>
    LET seated == ValueOf(ApplicableRow(calc.input)).seated_equivalent_pence
        pct == ValueOf(calc.input.request.compensation_percentage)
        capped == calc.output.capped_compensation_pence
    IN /\ calc.output.cap_applied
       /\ capped * 100 <= seated * pct
       /\ seated * pct < (capped + 1) * 100

\* With percentage 25 supplied and a seated equivalent of 8500 in force, a
\* calculated compensation of 1250 became 2125 and the cap was flagged.
C18_Witness ==
  /\ calc.op = "applyCap"
  /\ ApplicableRow(calc.input) # Undefined
  /\ ValueOf(calc.input.found).seated_equivalent_pence = 8500
  /\ calc.input.request.compensation_percentage = Some(25)
  /\ calc.input.request.calculated_compensation_pence = 1250
  /\ calc.output.capped_compensation_pence = 2125
  /\ calc.output.cap_applied

\* C19: the cap is applied only when a seated-fare row exists whose
\* effective range contains the journey date; otherwise the calculated
\* compensation is returned unchanged, flagged as not capped, with a note.
C19_CapOnlyWithinEffectiveRange ==
  calc.op = "applyCap" =>
    /\ calc.output.cap_applied => ApplicableRow(calc.input) # Undefined
    /\ ApplicableRow(calc.input) = Undefined =>
         /\ calc.output.capped_compensation_pence
              = calc.input.request.calculated_compensation_pence
         /\ ~calc.output.cap_applied
         /\ calc.output.notes # ""

\* A row that ended before the journey date left the calculated compensation
\* as it was, with the note that the equivalent had expired.
C19_Witness ==
  /\ calc.op = "applyCap"
  /\ calc.input.found # Undefined
  /\ ValueOf(calc.input.found).effective_to = Some(IsoDate(2025, 12, 31))
  /\ calc.input.request.journey_date = IsoDate(2026, 1, 15)
  /\ calc.input.request.compensation_percentage = Some(100)
  /\ calc.output.capped_compensation_pence = 5000
  /\ ~calc.output.cap_applied
  /\ calc.output.notes = "Expired fare equivalent - using original calculation"

\* C20: when a seated-fare equivalent applies and no percentage is supplied,
\* a calculated compensation at or below the seated equivalent is returned
\* unchanged and not flagged; a larger one is capped to
\* floor(seated equivalent x calculated compensation / sleeper fare) and
\* flagged.
C20_FallbackCap ==
  (/\ calc.op = "applyCap"
   /\ ApplicableRow(calc.input) # Undefined
   /\ calc.input.request.compensation_percentage = Undefined) =>
    LET seated == ValueOf(ApplicableRow(calc.input)).seated_equivalent_pence
        calculated == calc.input.request.calculated_compensation_pence
        fare == calc.input.request.sleeper_fare_pence
        capped == calc.output.capped_compensation_pence
    IN IF calculated <= seated
       THEN capped = calculated /\ ~calc.output.cap_applied
       ELSE /\ calc.output.cap_applied
            /\ capped * fare <= seated * calculated
            /\ seated * calculated < (capped + 1) * fare

\* Without a percentage, a full refund of a 5000 sleeper fare was capped to
\* the seated equivalent of 2000.
C20_Witness ==
  /\ calc.op = "applyCap"
  /\ ApplicableRow(calc.input) # Undefined
  /\ calc.input.request.compensation_percentage = Undefined
  /\ calc.input.request.sleeper_fare_pence = 5000
  /\ calc.input.request.calculated_compensation_pence = 5000
  /\ ValueOf(calc.input.found).seated_equivalent_pence = 2000
  /\ calc.output.capped_compensation_pence = 2000
  /\ calc.output.cap_applied

\* The apportionment of a request's segments, in the order they are listed.
ApportionmentOf(request, delay) ==
  apportion(
    ApportionmentRequest(request.journey_id, delay, ValueOf(request.ticket_fare_pence),
      [i \in DOMAIN request.journey_segments |->
         JourneySegment(request.journey_segments[i].toc_code,
                        request.journey_segments[i].fare_portion_pence, i)]),
    toc_rulepacks)

\* The sleeper cap of a compensation computed as a percentage of the fare,
\* with the seated-fare row the reference data holds, if any.
SleeperCapOf(request, percentage) ==
  applyCap(
    SleeperCapRequest(ValueOf(request.ticket_fare_pence),
                      FloorDiv(ValueOf(request.ticket_fare_pence) * percentage, 100),
                      IsoDate(2026, 1, 15), Some(percentage)),
    IF seated_fare_equivalents = {} THEN Undefined
    ELSE Some(CHOOSE row \in seated_fare_equivalents : TRUE))

\* C11: the evaluation a request wrote (through POST /eligibility/evaluate or
\* the event handler) reflects the sub-components the request calls for: for
\* a sleeper journey its compensation is the sleeper-capped amount, and for a
\* request with journey segments it is the apportionment's total, the sum of
\* the segment compensations.
C11_DecisionReflectsSubComponents ==
  \A p \in Procs :
    (req[p].kind \in {"evaluate", "event"} /\ pc[p] = "done") =>
      \A r \in EvalBy(p) :
        /\ req[p].is_sleeper =>
             r.compensation_pence
               = SleeperCapOf(req[p], parseFloat(r.compensation_percentage)).capped_compensation_pence
        /\ req[p].journey_segments # <<>> =>
             /\ ApportionmentOf(req[p], r.delay_minutes).outcome = "returned"
             /\ r.compensation_pence
                  = ApportionmentOf(req[p], r.delay_minutes).total_compensation_pence

\* An event for a journey over an LNER segment of 999 and an unknown
\* operator's segment of 1000, 20 minutes late, was stored with 499 pence.
C11_Witness ==
  \E p \in Procs :
    /\ req[p].kind = "event"
    /\ pc[p] = "done"
    /\ Len(req[p].journey_segments) = 2
    /\ \E r \in EvalBy(p) : r.compensation_pence = 499
    /\ ApportionmentOf(req[p], 20).total_compensation_pence = 249

\* The calendar years the journey dates lie in, the texts YYYY-MM-DD that
\* name a day of the calendar in those years, and the texts HH:MM that name
\* a minute of the 24-hour day.
CalendarYears == {2026, 2027, 2028, 2100}
CalendarDates ==
  { DateString(y, m, d) : <<y, m, d>> \in
      { ymd \in CalendarYears \X (1..12) \X (1..31) :
          ymd[3] <= (IF ymd[2] = 2
                     THEN (IF (ymd[1] % 4 = 0 /\ ymd[1] % 100 # 0) \/ ymd[1] % 400 = 0
                           THEN 29 ELSE 28)
                     ELSE IF ymd[2] \in {4, 6, 9, 11} THEN 30 ELSE 31) } }
ClockTimes == { TimeString(h, m) : h \in 0..23, m \in 0..59 }

\* C21: validate raises an error and returns no result whenever the journey
\* date is not a calendar date in YYYY-MM-DD form (29 February of a year
\* that is not a leap year included) or the departure time is not an HH:MM
\* 24-hour time, whatever the codes, the empty list included.
C21_MalformedInputRaises ==
  calc.op = "validate" =>
    LET request == calc.input.request
    IN /\ request.journey_date \notin CalendarDates =>
            /\ calc.output.outcome = "thrown"
            /\ calc.output.error = <<"Invalid journey_date format">>
            /\ calc.output.restrictions_checked = <<>>
            /\ calc.output.evaluated = 0
       /\ (request.journey_date \in CalendarDates /\ request.departure_time \notin ClockTimes) =>
            /\ calc.output.outcome = "thrown"
            /\ calc.output.error = <<"Invalid departure_time format">>
            /\ calc.output.restrictions_checked = <<>>
            /\ calc.output.evaluated = 0

\* 29 February 2100 with an empty list of codes was refused.
C21_Witness ==
  /\ calc.op = "validate"
  /\ calc.input.request.journey_date = DateString(2100, 2, 29)
  /\ calc.input.request.departure_time = TimeString(12, 0)
  /\ calc.input.request.restriction_codes = <<>>
  /\ calc.output.outcome = "thrown"

\* Whether the code, validated alone for the call's date, time and time
\* zone, fails.
FailsAlone(code, input) ==
  ~validate(RestrictionValidationRequest(<<code>>, input.request.journey_date,
                                         input.request.departure_time),
            input.utcOffsetMinutes).valid

\* C22: a returned validation is invalid exactly when at least one code of
\* the list fails; the blocking code is the first failing code in list
\* order and no code after it was evaluated; the empty list is valid.
C22_FirstFailingCodeBlocks ==
  (calc.op = "validate" /\ calc.output.outcome = "returned") =>
    LET codes == calc.input.request.restriction_codes
        failing == { i \in DOMAIN codes : FailsAlone(codes[i], calc.input) }
    IN /\ calc.output.valid <=> failing = {}
       /\ codes = <<>> => calc.output.valid
       /\ failing # {} =>
            LET first == CHOOSE i \in failing : \A j \in failing : i <= j
            IN /\ calc.output.blocking_restriction = codes[first]
               /\ calc.output.evaluated = first
       /\ failing = {} => calc.output.blocking_restriction = ""

\* On a Thursday at 16:00 the list OP, WE, of which both codes fail, was
\* blocked by OP after one check.
C22_Witness ==
  /\ calc.op = "validate"
  /\ calc.input.request.restriction_codes = <<"OP", "WE">>
  /\ calc.input.request.journey_date = DateString(2026, 1, 15)
  /\ calc.input.request.departure_time = TimeString(16, 0)
  /\ calc.input.utcOffsetMinutes = 0
  /\ ~calc.output.valid
  /\ calc.output.blocking_restriction = "OP"
  /\ calc.output.evaluated = 1

\* The designated holidays: the bank holidays of the validator's calendar
\* (29 February 2028, which the calendar lists as not being one, is none).
DesignatedHolidays == UK_BANK_HOLIDAYS \ { DateString(2028, 2, 29) }

\* The day of the week of a calendar date, Sunday = 0.
DayOfWeek(date) ==
  (DayNumber(Number(SubSeq(date, 1, 4)), Number(SubSeq(date, 6, 7)),
             Number(SubSeq(date, 9, 10))) + 4) % 7

WeekendOrHoliday(date) == DayOfWeek(date) \in {0, 6} \/ date \in DesignatedHolidays

\* The minute of the day of a time HH:MM.
MinuteOfDay(time) == Number(SubSeq(time, 1, 2)) * 60 + Number(SubSeq(time, 4, 5))

InPeakWindow(time) ==
  \/ (390 <= MinuteOfDay(time) /\ MinuteOfDay(time) < 570)
  \/ (960 <= MinuteOfDay(time) /\ MinuteOfDay(time) < 1140)

\* A validation of one code for a calendar date and a clock time.
SingleCodeCall ==
  /\ calc.op = "validate"
  /\ Len(calc.input.request.restriction_codes) = 1
  /\ calc.input.request.journey_date \in CalendarDates
  /\ calc.input.request.departure_time \in ClockTimes

\* C23: each recognized code blocks exactly as follows: WE fails exactly on
\* dates that are neither a Saturday or Sunday nor a designated holiday; OP,
\* SP, RE and XA fail exactly when the date is a non-holiday weekday and the
\* departure time is in [06:30, 09:30) or [16:00, 19:00); AT never fails.
C23_CodesBlockAsSpecified ==
  SingleCodeCall =>
    LET code == calc.input.request.restriction_codes[1]
        date == calc.input.request.journey_date
        time == calc.input.request.departure_time
    IN /\ calc.output.outcome = "returned"
       /\ code = "WE" => (~calc.output.valid <=> ~WeekendOrHoliday(date))
       /\ code \in {"OP", "SP", "RE", "XA"} =>
            (~calc.output.valid <=> (~WeekendOrHoliday(date) /\ InPeakWindow(time)))
       /\ code = "AT" => calc.output.valid

\* A weekend-only ticket was refused on a Thursday.
C23_Witness ==
  /\ SingleCodeCall
  /\ calc.input.request.restriction_codes = <<"WE">>
  /\ calc.input.request.journey_date = DateString(2026, 1, 15)
  /\ ~calc.output.valid
  /\ calc.output.blocking_restriction = "WE"

\* A validation of the off-peak code alone on a weekday that is no holiday.
OffPeakWeekdayCall ==
  /\ SingleCodeCall
  /\ calc.input.request.restriction_codes = <<"OP">>
  /\ ~WeekendOrHoliday(calc.input.request.journey_date)

\* C24 as stated: for an off-peak ticket on a non-holiday weekday a
\* departure one minute before the evening peak starts (15:59) is invalid,
\* and a departure exactly at the end of a peak window (09:30, 19:00) is
\* valid.
C24_BoundaryAsStated ==
  OffPeakWeekdayCall =>
    /\ calc.input.request.departure_time = TimeString(15, 59) => ~calc.output.valid
    /\ calc.input.request.departure_time \in {TimeString(9, 30), TimeString(19, 0)} =>
         calc.output.valid

\* C24 as amended: for an off-peak ticket on a non-holiday weekday a
\* departure one minute before the evening peak starts (15:59) is valid, and
\* a departure exactly at the end of a peak window (09:30, 19:00) is valid.
C24_BoundaryAmended ==
  OffPeakWeekdayCall =>
    /\ calc.input.request.departure_time = TimeString(15, 59) => calc.output.valid
    /\ calc.input.request.departure_time \in {TimeString(9, 30), TimeString(19, 0)} =>
         calc.output.valid

\* An off-peak ticket on a Thursday at 09:30 was valid.
C24_Witness ==
  /\ OffPeakWeekdayCall
  /\ calc.input.request.journey_date = DateString(2026, 1, 15)
  /\ calc.input.request.departure_time = TimeString(9, 30)
  /\ calc.input.utcOffsetMinutes = 0
  /\ calc.output.valid

\* C25: a code that is not recognized never blocks, and every result of a
\* validation whose list holds one names that code in its notes, whatever
\* other codes the list holds.
C25_UnknownCodeReported ==
  (calc.op = "validate" /\ calc.output.outcome = "returned") =>
    \A i \in DOMAIN calc.input.request.restriction_codes :
      LET code == calc.input.request.restriction_codes[i]
      IN code \notin {"WE", "OP", "SP", "AT", "RE", "1F", "XA"} =>
           /\ calc.output.blocking_restriction # code
           /\ \E k \in DOMAIN calc.output.notes.codes : calc.output.notes.codes[k] = code

\* The list XX, AT was valid with a note naming XX.
C25_Witness ==
  /\ calc.op = "validate"
  /\ calc.input.request.restriction_codes = <<"XX", "AT">>
  /\ calc.output.valid
  /\ calc.output.notes.codes = <<"XX">>

\* The minutes on either side of every band boundary.
BoundaryMinutes == {14, 15, 16, 29, 30, 31, 59, 60, 61, 119, 120, 121}

\* C26: at every boundary minute and for both schemes, the bands kept as
\* minimum/maximum ranges (the apportioner's constant table, and the range
\* rows the endpoint and the handler query) and the bands kept as thresholds
\* (the largest threshold at most the delay, over the seeded rows) give the
\* same percentage, or both give not eligible.
C26_RangeAndThresholdTablesAgree ==
  (calc.op = "resolveBand" /\ calc.input.delay \in BoundaryMinutes) =>
    LET byThreshold == BandsAtMost(calc.input.scheme, calc.input.delay)
    IN /\ (calc.output.apportioner = 0) <=> (byThreshold = {})
       /\ \A d \in {calc.output.endpoint, calc.output.handler} :
            /\ ~d.eligible <=> (byThreshold = {})
            /\ d.compensation_percentage = calc.output.apportioner
       /\ byThreshold # {} =>
            \E b \in byThreshold :
              /\ \A c \in byThreshold : c.delay_threshold_minutes <= b.delay_threshold_minutes
              /\ b.compensation_percentage = calc.output.apportioner

\* At 119 minutes under DR30 both tables gave 50 percent.
C26_Witness ==
  /\ calc.op = "resolveBand"
  /\ calc.input.scheme = "DR30"
  /\ calc.input.delay = 119
  /\ calc.output.apportioner = 50
  /\ calc.output.endpoint.compensation_percentage = 50
  /\ ResolvedPercentage("DR30", 119) = 50

RowToInsert(p) == EvaluationRow(loc[p].evaluationId, req[p].toc_code, loc[p].decision)
InsertStatements == {"h_insEval", "e_insEval"}

\* C28: every persisted evaluation has scheme DR15 or DR30, the store
\* rejecting any other value, and no evaluation path reaches its insert
\* with a row of another scheme, whose persistence it would rely on.
C28_OnlyRulepackSchemesPersisted ==
  /\ \A r \in evaluations : r.scheme \in {"DR15", "DR30"}
  /\ \A p \in Procs : \A r \in txEval[p] : r.scheme \in {"DR15", "DR30"}
  /\ \A p \in Procs :
       pc[p] \in InsertStatements => RowToInsert(p).scheme \in {"DR15", "DR30"}

\* The persisted half of C28 alone: committed and pending rows all carry a
\* scheme the CHECK constraint admits.
C28_StoreHoldsOnlyRulepackSchemes ==
  /\ \A r \in evaluations : ~SchemeCheckViolated(r)
  /\ \A p \in Procs : \A r \in txEval[p] : ~SchemeCheckViolated(r)

\* The handler reached its insert with scheme UNKNOWN for an event of an
\* operator without rulepack.
C28_Witness ==
  \E p \in Procs :
    /\ req[p].kind = "event"
    /\ pc[p] = "h_insEval"
    /\ SelectTocRulepack(req[p].toc_code) = {}
    /\ RowToInsert(p).scheme = "UNKNOWN"

\* C29: every persisted evaluation has delay minutes of at least zero, also
\* when the request or event carried delay_minutes itself instead of the two
\* arrival times.
C29_PersistedDelayNotNegative ==
  \A r \in evaluations : r.delay_minutes >= 0

\* The persisted delay of an evaluation computed from the two arrival times is
\* at least zero.
C29_ComputedDelayNotNegative ==
  \A p \in Procs :
    (pc[p] = "done" /\ ~IsDefined(req[p].delay_minutes)) =>
      \A r \in EvalBy(p) : r.delay_minutes >= 0

\* A request or event that carried delay_minutes itself was evaluated and its
\* evaluation persisted.
C29_Witness ==
  \E p \in Procs :
    /\ pc[p] = "done"
    /\ IsDefined(req[p].delay_minutes)
    /\ \E r \in EvalBy(p) : r.delay_minutes = ValueOf(req[p].delay_minutes)

\* The compensation of a segment lies between 0 and its fare portion.
WithinPortion(e) ==
  0 <= e.compensation_pence /\ e.compensation_pence <= e.fare_portion_pence

\* C30: for every apportionment request that passes validation, the
\* compensation of each segment lies between 0 and the segment's fare
\* portion, and the total compensation between 0 and the total fare.
C30_CompensationWithinFare ==
  (calc.op = "apportion" /\ calc.output.outcome = "returned") =>
    /\ \A j \in DOMAIN calc.output.segment_eligibilities :
         WithinPortion(calc.output.segment_eligibilities[j])
    /\ 0 <= calc.output.total_compensation_pence
    /\ calc.output.total_compensation_pence <= calc.input.total_fare_pence

\* The same for the requests whose fare portions are all at least zero.
C30_WithinFareForPortionsFromZero ==
  (/\ calc.op = "apportion"
   /\ calc.output.outcome = "returned"
   /\ \A i \in DOMAIN calc.input.journey_segments :
        calc.input.journey_segments[i].fare_portion_pence >= 0) =>
    /\ \A j \in DOMAIN calc.output.segment_eligibilities :
         WithinPortion(calc.output.segment_eligibilities[j])
    /\ 0 <= calc.output.total_compensation_pence
    /\ calc.output.total_compensation_pence <= calc.input.total_fare_pence

\* A request with portions -500 and 2000 for a total fare of 1500 passed
\* validation and was apportioned.
C30_Witness ==
  /\ calc.op = "apportion"
  /\ calc.output.outcome = "returned"
  /\ calc.input.total_fare_pence = 1500
  /\ { calc.input.journey_segments[i].fare_portion_pence :
         i \in DOMAIN calc.input.journey_segments } = {-500, 2000}
  /\ Len(calc.output.segment_eligibilities) = 2

====
